---------------------------- MODULE Spec2Model ----------------------------
(*************************************************************************)
(* OKZ admin console: the data-freshness / retry / cache policy layer of  *)
(* the Dashboard and History pages, the session store and the route      *)
(* guard.  Times are milliseconds, as Date.now() gives them; the clock   *)
(* of the model starts at 0 instead of at the epoch offset.              *)
(*************************************************************************)
EXTENDS Integers, Sequences, FiniteSets, TLC

(*************************************************************************)
(* Program constants.                                                    *)
(*************************************************************************)
DefaultMaxAge == 300000
OfflineMaxAge == 3600000
FallbackMaxAge == 86400000
BackoffBase == 1000
SessionMaxAgeMs == 86400000
SessionMonitorMs == 60000
FailureThreshold == 5
CooldownMs == 300000

(*************************************************************************)
(* Bounds of the model.                                                  *)
(*************************************************************************)
NumPayloads == 2
MaxCacheTicks == 3
MaxRetriesArg == 4
MaxBreakerTicks == 3
MaxBreakerCount == 7
MaxInFlight == 2
MaxStarted == 2
MaxOutageStarted == 6
MaxOverlapStarted == 3
MaxRouteTicks == 3
MaxPageTicks == 1
TokenExpSec == 2
MaxBookings == 2
NumListeners == 2
MaxSubscriptions == 3
MaxTransitions == 2
MaxViewBookings == 2
MaxViewLoads == 1
MaxLoginSubmits == 7
MaxRenders == 6
MaxLoginTicks == 2

(*************************************************************************)
(* State.                                                                *)
(*************************************************************************)
VARIABLES
  now,        \* Date.now()
  ticks,      \* how many times the clock was advanced by hand (bounds the model)
  ls,         \* localStorage
  lastLoad,   \* the most recent cache.load call and what it returned
  rt,         \* one call of retry(fn, maxRetries): its loop state and history
  fb,         \* one fallbacks object: its failureCount and lastFailure
  lastBlock,  \* the most recent shouldBlock call on fb and what it returned
  online,     \* navigator.onLine, as the online / offline events report it
  loc,        \* where the router is: "login", "mounting" or "page"
  ui,         \* React state of the mounted page
  cur,        \* the fallbacks object built by the latest render of the page
  sub,        \* the fallbacks object of the render whose network listener is subscribed
  objs,       \* the fallbacks objects still referenced, by identity
  fetches,    \* the fetch invocations in flight
  started,    \* how many fetch invocations were made (bounds the model)
  late,       \* how many network calls withTimeout gave up on are still pending
  pg,         \* history: the failures the page recorded since its last success
  ev,         \* history: what the latest step did
  route,      \* the ProtectedRoute around the authenticated views
  calc,       \* one application of a pure function of the pages: its input and output
  net         \* one network monitor: isOnline, its listeners, what they were told

cacheVars == <<lastLoad>>
retryVars == <<rt>>
breakerVars == <<fb, lastBlock>>
pageVars == <<online, loc, ui, cur, sub, objs, fetches, started, late, pg, ev>>
routeVars == <<route>>
auxVars == <<calc, net>>
vars == <<now, ticks, ls, lastLoad, rt, fb, lastBlock, pageVars, routeVars, auxVars>>

NoTime == -1

(*************************************************************************)
(* localStorage.  getItem of a missing key gives null.                   *)
(*************************************************************************)
NullData == 0
Payloads == 1..NumPayloads
CacheKeys == {"dashboard_overview", "history_all"}
NoEntry == [data |-> NullData, timestamp |-> NoTime]

HasEntry(store, k) == store.cache[k] # NoEntry

\* adminEmail: what the login form sent, or null
NoEmail == "null"
AdminEmail == "admin@okz.com"

\* adminToken: what the server issued.  kind "jwt" is three dot-separated
\* segments with a decodable payload, whose exp (seconds) is 0 when the
\* payload holds no exp claim; kind "jwtBad" is three segments whose
\* payload does not decode; kind "opaque" is any other string.
NoToken == [kind |-> "null", exp |-> 0, long |-> FALSE]
Jwt(exp) == [kind |-> "jwt", exp |-> exp, long |-> TRUE]
JwtBad == [kind |-> "jwtBad", exp |-> 0, long |-> TRUE]
Opaque(long) == [kind |-> "opaque", exp |-> 0, long |-> long]

FreshStorage ==
  [email |-> NoEmail, token |-> NoToken, loginTime |-> NoTime,
   cache |-> [k \in CacheKeys |-> NoEntry]]

\* handleSubmit of the login page, once the server accepted: setItem of
\* adminEmail, adminToken and adminLoginTime
StoreSession(store, email, token, t) ==
  IF token = NoToken
    THEN [store EXCEPT !.email = email]
    ELSE [store EXCEPT !.email = email, !.token = token, !.loginTime = t]

\* the logout of the pages: removeItem('adminEmail'), removeItem('adminToken')
RemoveEmailAndToken(store) ==
  [store EXCEPT !.email = NoEmail, !.token = NoToken]

\* validateSession of the pages
PageValidateSession(store, t) ==
  IF store.token = NoToken \/ store.email = NoEmail THEN FALSE
  ELSE IF store.token.kind = "jwt" /\ store.token.exp # 0
          /\ store.token.exp * 1000 < t THEN FALSE
  ELSE TRUE

\* AppFallbacks.validateSession: both keys present, the token at least
\* 10 characters long, the e-mail of the shape x@y.z
EmailWellFormed(e) == e = AdminEmail

AppValidateSession(store) ==
  /\ store.email # NoEmail
  /\ store.token # NoToken
  /\ store.token.long
  /\ EmailWellFormed(store.email)

\* AppFallbacks.checkTokenExpiry: TRUE when the session has expired
CheckTokenExpiry(store, t) ==
  IF store.token = NoToken THEN TRUE
  ELSE IF store.token.kind = "jwtBad" THEN FALSE
  ELSE IF store.token.kind = "jwt" /\ store.token.exp # 0
    THEN t >= store.token.exp * 1000
  ELSE IF store.loginTime # NoTime
    THEN t - store.loginTime > SessionMaxAgeMs
  ELSE FALSE

\* AppFallbacks.cleanSession
CleanSession(store) ==
  [store EXCEPT !.email = NoEmail, !.token = NoToken, !.loginTime = NoTime]

(*************************************************************************)
(* Response cache.                                                       *)
(*************************************************************************)
\* cache.save: setItem(prefix_key, JSON.stringify({data, timestamp: Date.now()}))
CacheSave(store, k, data, t) ==
  [store EXCEPT !.cache[k] = [data |-> data, timestamp |-> t]]

\* cache.save as its caller sees it: try { setItem } catch (e) {}.  When
\* the storage is full setItem throws, nothing is written and the
\* exception is swallowed.
CacheSaveRaising(store, k, data, t, full) ==
  [store |-> IF full THEN store ELSE CacheSave(store, k, data, t), raised |-> full]

\* cache.save that keeps an entry already written
CacheSaveKeepFirst(store, k, data, t, full) ==
  [store |-> IF full \/ HasEntry(store, k) THEN store ELSE CacheSave(store, k, data, t),
   raised |-> FALSE]

CacheSaveTry(store, k, data, t, full) ==
  [store |-> IF full THEN store ELSE CacheSave(store, k, data, t), raised |-> FALSE]

IsFreshInclusive(t, timestamp, maxAge) == t - timestamp <= maxAge

\* the staleness test of cache.load: Date.now() - timestamp < maxAge
IsFresh(t, timestamp, maxAge) == t - timestamp < maxAge

\* cache.load: the stored data when the entry exists and is fresh, else null
CacheLoad(store, k, maxAge, t) ==
  IF HasEntry(store, k) /\ IsFresh(t, store.cache[k].timestamp, maxAge)
    THEN store.cache[k].data
    ELSE NullData

MaxAges == {DefaultMaxAge, OfflineMaxAge, FallbackMaxAge}
NoLoad == [key |-> "none", maxAge |-> 0, result |-> NullData]

(*************************************************************************)
(* Fetch policy: retry with exponential backoff.  The repository holds   *)
(* five copies of the loop; two of them refuse to retry an               *)
(* authentication failure.                                               *)
(*************************************************************************)
RetryImpls == {"Dashboard", "History", "DashboardBasic", "Login", "Main"}

\* the copies that hold the "Don't retry auth errors" test
AuthAware(impl) == impl \in {"Dashboard", "History"}

\* what fn can throw: 'Session expired. Please login again.' (HTTP 401),
\* 'Failed to fetch ... (status)', 'Request timeout', a rejected fetch()
ErrorKinds == {"auth", "http", "timeout", "network"}
NoError == [kind |-> "none", attempt |-> -1]

\* err.message?.includes('401') || err.message?.includes('Session expired')
IsAuthError(err) == err.kind = "auth"

RECURSIVE Pow2(_)
Pow2(n) == IF n <= 0 THEN 1 ELSE 2 * Pow2(n - 1)

BackoffFlat(i) == BackoffBase

\* const wait = 1000 * Math.pow(2, i)
Backoff(i) == BackoffBase * Pow2(i)

KeepFirstError(prev, err) == IF prev = NoError THEN err ELSE prev

\* lastError = err
UpdateLastError(prev, err) == err

\* the catch block of the loop at attempt i: rethrow, or wait and go round
RetryCatch(impl, i, maxRetries, err) ==
  IF i = maxRetries - 1 THEN "throw"
  ELSE IF AuthAware(impl) /\ IsAuthError(err) THEN "throw"
  ELSE "wait"

NoRetry ==
  [impl |-> "none", maxRetries |-> 0, i |-> 0, pc |-> "idle", calls |-> 0,
   outs |-> << >>, waits |-> << >>, lastError |-> NoError,
   thrown |-> NoError, result |-> -1]

\* retry(fn, maxRetries) entered: i = 0 and fn is invoked
RetryEnter(impl, maxRetries) ==
  [NoRetry EXCEPT !.impl = impl, !.maxRetries = maxRetries,
                  !.pc = "call", !.calls = 1]

\* return await fn(): fn resolved at attempt i
RetryOnSuccess(r) ==
  [r EXCEPT !.pc = "returned", !.result = r.i, !.outs = Append(r.outs, "ok")]

\* catch (err) at attempt i
RetryOnFailure(r, kind) ==
  LET err == [kind |-> kind, attempt |-> r.i]
      last == UpdateLastError(r.lastError, err)
      r1 == [r EXCEPT !.lastError = last, !.outs = Append(r.outs, kind)]
  IN IF RetryCatch(r.impl, r.i, r.maxRetries, err) = "throw"
       THEN [r1 EXCEPT !.pc = "thrown", !.thrown = last]
       ELSE [r1 EXCEPT !.pc = "wait", !.waits = Append(r.waits, Backoff(r.i))]

\* the timer of the backoff fired: i++ and fn is invoked again
RetryOnWake(r) ==
  [r EXCEPT !.pc = "call", !.i = r.i + 1, !.calls = r.calls + 1]

(*************************************************************************)
(* Failure counter and circuit breaker of a fallbacks object.            *)
(*************************************************************************)
FreshFallbacks == [failureCount |-> 0, lastFailure |-> NoTime]

\* recordFailure: this.failureCount++; this.lastFailure = Date.now()
RecordFailure(o, t) ==
  [o EXCEPT !.failureCount = o.failureCount + 1, !.lastFailure = t]

\* Date.now() - this.lastFailure < 300000; with lastFailure null the
\* difference is Date.now() itself, far above the window
InsideCooldown(o, t) == o.lastFailure # NoTime /\ t - o.lastFailure < CooldownMs

\* Date.now() - this.lastFailure > 300000
PastCooldown(o, t) == o.lastFailure = NoTime \/ t - o.lastFailure > CooldownMs

\* what shouldBlock returns
ShouldBlock(o, t) == o.failureCount >= FailureThreshold /\ InsideCooldown(o, t)

\* what shouldBlock leaves in the object
AfterShouldBlock(o, t) ==
  IF ShouldBlock(o, t) THEN o
  ELSE IF PastCooldown(o, t) THEN [o EXCEPT !.failureCount = 0]
  ELSE o

\* DashboardFallbacks.failureCount = 0 after a successful retry
ResetOnSuccess(o) == [o EXCEPT !.failureCount = 0]

NoBlock == [called |-> FALSE, result |-> FALSE, lastFailure |-> NoTime]

(*************************************************************************)
(* View data controller of the Dashboard page (the History page holds    *)
(* the same controller over its own cache key).  The page component      *)
(* builds its fallbacks object, and the closures over it, in the        *)
(* component body: every render makes a new object, and a fetch          *)
(* invocation keeps the object of the render it was started from.        *)
(*************************************************************************)
PageKey == "dashboard_overview"
PageMaxRetries == 3
TimeoutMs == 8000

MsgNone == ""
MsgTooMany == "Too many failed attempts. Please try again later."
MsgNetwork == "Network connection lost. Showing cached data."
MsgTimeout == "Request timed out. Please try again."
MsgServer == "Server error. Using cached data."

\* err.message of what fetchFn and withTimeout throw
ErrMessage(kind) ==
  CASE kind = "auth" -> "Session expired. Please login again."
    [] kind = "http" -> "Failed to fetch dashboard data (500)"
    [] kind = "timeout" -> "Request timeout"
    [] kind = "storage" -> "QuotaExceededError"
    [] OTHER -> "Failed to fetch"

\* useState(null), useState(true), useState(''), useState(null)
InitialUi == [loading |-> TRUE, error |-> MsgNone, data |-> NullData, cached |-> NullData]

\* what the component renders from its state: the loading screen, the
\* error screen (banner and "Try Again", no data), or the main view (the
\* bookings of overviewData, with a banner when error is set)
View(u) ==
  IF u.loading /\ u.cached = NullData THEN "loading"
  ELSE IF u.error # MsgNone /\ u.cached = NullData THEN "error"
  ELSE "main"

\* cache.initFromCache, evaluated in the component body
InitFromCache(store, t) == CacheLoad(store, PageKey, OfflineMaxAge, t)

Slots == 1..MaxInFlight
ObjIds == 0..(MaxInFlight + 1)

\* a fetch in flight; n is its start number, met tells whether a fetch
\* that started "earlier" or "later" wrote the cache during its flight
FreeSlot ==
  [pc |-> "free", obj |-> -1, i |-> 0, t0 |-> NoTime, wake |-> NoTime,
   lastError |-> NoError, netCalls |-> 0, orphan |-> FALSE, n |-> 0,
   met |-> "none"]

InFlight(fs) == {s \in Slots : fs[s].pc # "free"}
Refs(fs) == {fs[s].obj : s \in InFlight(fs)}

SetMin(S) == CHOOSE x \in S : \A y \in S : x <= y

\* unmounting the page: the state setters of its fetches in flight no
\* longer reach a mounted component
Orphaned(fs) ==
  [s \in Slots |-> IF fs[s].pc = "free" THEN fs[s] ELSE [fs[s] EXCEPT !.orphan = TRUE]]

NoPg == [count |-> 0, first |-> NoTime, last |-> NoTime]

\* the page-wide failure history: one more recorded failure
PgFailure(p, t) ==
  [count |-> IF p.count < FailureThreshold THEN p.count + 1 ELSE p.count,
   first |-> IF p.count = 0 THEN t ELSE p.first,
   last |-> t]

\* the page-wide failure history after a successful fetch
PgSuccess(p) == [p EXCEPT !.count = 0]

\* the page-wide failure history once the cooldown has elapsed
PgCooldown(p, t) ==
  IF p.count > 0 /\ t - p.last > CooldownMs THEN [p EXCEPT !.count = 0] ELSE p

NoEv ==
  [type |-> "init", begun |-> FALSE, ended |-> FALSE, outcome |-> "none",
   got401 |-> FALSE, sessionInvalid |-> FALSE, redirected |-> FALSE,
   recorded |-> FALSE, loadedCache |-> FALSE, banner |-> FALSE,
   netCalls |-> 0, seen |-> 0, expected |-> 0, hot |-> FALSE,
   reached |-> FALSE, fetched |-> NullData, saveFailed |-> FALSE,
   met |-> "none", replaced |-> NullData, kind |-> "none"]

\* the cached payload fetchOverviewData shows instead of fetching when
\* network.isOnline = on is false: cache.load('overview', 3600000)
OfflineCacheShort(store, t, on) ==
  IF on THEN NullData ELSE CacheLoad(store, PageKey, DefaultMaxAge, t)

OfflineCache(store, t, on) ==
  IF on THEN NullData ELSE CacheLoad(store, PageKey, OfflineMaxAge, t)

\* the synchronous head of fetchOverviewData, run from the closure over
\* fallbacks object o with React state u: breaker, session, offline cache,
\* else the first network attempt
BeginFetch(o, u, heap, t, on) ==
  LET u1 == [u EXCEPT !.loading = TRUE, !.error = MsgNone]
      blocked == ShouldBlock(heap[o], t)
      heap1 == [heap EXCEPT ![o] = AfterShouldBlock(heap[o], t)]
      valid == PageValidateSession(ls, t)
      offl == OfflineCache(ls, t, on)
      base == [outcome |-> "net", ui |-> u1, heap |-> heap1, store |-> ls,
               valid |-> valid, seen |-> heap[o].failureCount]
  IN IF blocked
       THEN [base EXCEPT !.outcome = "blocked",
                         !.ui = [u1 EXCEPT !.error = MsgTooMany, !.loading = FALSE]]
     ELSE IF ~valid
       THEN [base EXCEPT !.outcome = "redirect",
                         !.store = RemoveEmailAndToken(ls),
                         !.ui = [u1 EXCEPT !.loading = FALSE]]
     ELSE IF offl # NullData
       THEN [base EXCEPT !.outcome = "offlineCache",
                         !.ui = [u1 EXCEPT !.data = offl, !.cached = offl,
                                           !.error = MsgNetwork, !.loading = FALSE]]
     ELSE base

\* the pages that hold a catch block with a cache fallback, and the
\* cache key of each
CatchImpls == {"Dashboard", "History", "DashboardBasic"}
CatchKey(impl) == IF impl = "History" THEN "history_all" ELSE "dashboard_overview"

\* setError of the catch block when a cached payload is shown, with
\* network.isOnline = on: the fallback pages classify the error, the
\* basic dashboard prefixes its message
CatchBanner(impl, kind, on) ==
  IF impl = "DashboardBasic" THEN "Using cached data - " \o ErrMessage(kind)
  ELSE IF ErrMessage(kind) = "Request timeout" THEN MsgTimeout
  ELSE IF ~on THEN MsgNetwork
  ELSE MsgServer

\* the banner of the catch block when a cached payload is shown
FallbackBanner(kind) == CatchBanner("Dashboard", kind, online)

\* the catch block on the error of kind: what it sets for display (0
\* when it sets no data) and as the error
CatchBlock(impl, store, kind, on, t) ==
  LET cached == CacheLoad(store, CatchKey(impl), FallbackMaxAge, t)
  IN IF cached # NullData
       THEN [data |-> cached, error |-> CatchBanner(impl, kind, on)]
       ELSE [data |-> NullData, error |-> ErrMessage(kind)]

\* the catch block without the finally block
FinishFailedNoFinally(f, u, heap, store, kind, t) ==
  [outcome |-> "failed", ui |-> [u EXCEPT !.error = ErrMessage(kind)],
   heap |-> [heap EXCEPT ![f.obj] = RecordFailure(heap[f.obj], t)],
   store |-> store, loaded |-> FALSE, banner |-> TRUE]

\* the catch block of fetchOverviewData for the error retry threw, with
\* the storage as fetchFn left it, and finally
FinishFailed(f, u, heap, store, kind, t) ==
  LET cached == CacheLoad(store, PageKey, FallbackMaxAge, t)
  IN [outcome |-> IF cached # NullData THEN "degraded" ELSE "failed",
      ui |-> IF cached # NullData
               THEN [u EXCEPT !.data = cached, !.cached = cached,
                              !.error = FallbackBanner(kind), !.loading = FALSE]
               ELSE [u EXCEPT !.error = ErrMessage(kind), !.loading = FALSE],
      heap |-> [heap EXCEPT ![f.obj] = RecordFailure(heap[f.obj], t)],
      store |-> store,
      loaded |-> cached # NullData, banner |-> TRUE]

\* the rest of fetchOverviewData once retry returned data p: reset of the
\* counter, display, write-through (the storage refuses the write when
\* full), finally; an exception of the write-through would be caught by
\* the catch block
FinishOk(f, u, heap, p, t, full) ==
  LET sv == CacheSaveTry(ls, PageKey, p, t, full)
      u1 == [u EXCEPT !.data = p, !.cached = p, !.error = MsgNone]
      heap1 == [heap EXCEPT ![f.obj] = ResetOnSuccess(heap[f.obj])]
  IN IF sv.raised
       THEN FinishFailed(f, u1, heap1, sv.store, "storage", t)
       ELSE [outcome |-> "ready",
             ui |-> [u1 EXCEPT !.loading = FALSE],
             heap |-> heap1,
             store |-> sv.store,
             loaded |-> FALSE, banner |-> FALSE]

(*************************************************************************)
(* What the variables of a component hold while a specification does     *)
(* not use it.                                                           *)
(*************************************************************************)
RetryIdle == rt = NoRetry
BreakerIdle == fb = FreshFallbacks /\ lastBlock = NoBlock
RouteImpls == {"monitored", "presence"}
FreshRoute(impl) ==
  [impl |-> impl, at |-> "login", shown |-> FALSE, pending |-> FALSE,
   nextCheck |-> NoTime]
RouteIdle == route = FreshRoute("none")
CalcIdle == calc = [op |-> "none"]
NetIdle == net = [op |-> "none"]
AuxIdle == CalcIdle /\ NetIdle

PageIdle ==
  /\ online = TRUE
  /\ loc = "login"
  /\ ui = InitialUi
  /\ cur = 0
  /\ sub = 0
  /\ objs = [id \in ObjIds |-> FreshFallbacks]
  /\ fetches = [s \in Slots |-> FreeSlot]
  /\ started = 0
  /\ late = 0
  /\ pg = NoPg
  /\ ev = NoEv

(*************************************************************************)
(* Specification of the response cache alone: saves, loads and the       *)
(* passage of time.                                                      *)
(*************************************************************************)
CacheSteps == {1} \cup {m - 1 : m \in MaxAges}

CacheInit ==
  /\ now = 0
  /\ ticks = 0
  /\ ls = FreshStorage
  /\ lastLoad = NoLoad
  /\ RetryIdle
  /\ BreakerIdle
  /\ PageIdle
  /\ RouteIdle
  /\ AuxIdle

DoCacheSave ==
  \E k \in CacheKeys, d \in Payloads :
    /\ ls' = CacheSave(ls, k, d, now)
    /\ lastLoad' = NoLoad
    /\ UNCHANGED <<now, ticks, retryVars, breakerVars, pageVars, routeVars, auxVars>>

DoCacheLoad ==
  \E k \in CacheKeys, m \in MaxAges :
    /\ lastLoad' = [key |-> k, maxAge |-> m, result |-> CacheLoad(ls, k, m, now)]
    /\ UNCHANGED <<now, ticks, ls, retryVars, breakerVars, pageVars, routeVars, auxVars>>

CacheTick ==
  \E d \in CacheSteps :
    /\ ticks < MaxCacheTicks
    /\ now' = now + d
    /\ ticks' = ticks + 1
    /\ lastLoad' = NoLoad
    /\ UNCHANGED <<ls, retryVars, breakerVars, pageVars, routeVars, auxVars>>

CacheNext == DoCacheSave \/ DoCacheLoad \/ CacheTick

SpecCache == CacheInit /\ [][CacheNext]_vars

(*************************************************************************)
(* Specification of one retry call, for every copy of the loop and       *)
(* every maxRetries from 1 up.                                           *)
(*************************************************************************)
RetryInit ==
  /\ now = 0
  /\ ticks = 0
  /\ ls = FreshStorage
  /\ lastLoad = NoLoad
  /\ BreakerIdle
  /\ PageIdle
  /\ RouteIdle
  /\ AuxIdle
  /\ \E impl \in RetryImpls, m \in 1..MaxRetriesArg : rt = RetryEnter(impl, m)

FnResolves ==
  /\ rt.pc = "call"
  /\ rt' = RetryOnSuccess(rt)
  /\ UNCHANGED <<now, ticks, ls, cacheVars, breakerVars, pageVars, routeVars, auxVars>>

FnRejects ==
  \E kind \in ErrorKinds :
    /\ rt.pc = "call"
    /\ rt' = RetryOnFailure(rt, kind)
    /\ UNCHANGED <<now, ticks, ls, cacheVars, breakerVars, pageVars, routeVars, auxVars>>

BackoffElapses ==
  /\ rt.pc = "wait"
  /\ now' = now + rt.waits[Len(rt.waits)]
  /\ rt' = RetryOnWake(rt)
  /\ UNCHANGED <<ticks, ls, cacheVars, breakerVars, pageVars, routeVars, auxVars>>

RetryNext == FnResolves \/ FnRejects \/ BackoffElapses

SpecRetry == RetryInit /\ [][RetryNext]_vars

(*************************************************************************)
(* Specification of one fallbacks object driven through its failure      *)
(* counter: recordFailure, shouldBlock, the reset on success, and time.   *)
(*************************************************************************)
BreakerSteps == {1, CooldownMs - 1}

BreakerInit ==
  /\ now = 0
  /\ ticks = 0
  /\ ls = FreshStorage
  /\ lastLoad = NoLoad
  /\ RetryIdle
  /\ fb = FreshFallbacks
  /\ lastBlock = NoBlock
  /\ PageIdle
  /\ RouteIdle
  /\ AuxIdle

DoRecordFailure ==
  /\ fb.failureCount < MaxBreakerCount
  /\ fb' = RecordFailure(fb, now)
  /\ lastBlock' = NoBlock
  /\ UNCHANGED <<now, ticks, ls, cacheVars, retryVars, pageVars, routeVars, auxVars>>

DoShouldBlock ==
  /\ lastBlock' = [called |-> TRUE, result |-> ShouldBlock(fb, now),
                   lastFailure |-> fb.lastFailure]
  /\ fb' = AfterShouldBlock(fb, now)
  /\ UNCHANGED <<now, ticks, ls, cacheVars, retryVars, pageVars, routeVars, auxVars>>

DoResetOnSuccess ==
  /\ fb' = ResetOnSuccess(fb)
  /\ lastBlock' = NoBlock
  /\ UNCHANGED <<now, ticks, ls, cacheVars, retryVars, pageVars, routeVars, auxVars>>

BreakerTick ==
  \E d \in BreakerSteps :
    /\ ticks < MaxBreakerTicks
    /\ now' = now + d
    /\ ticks' = ticks + 1
    /\ lastBlock' = NoBlock
    /\ UNCHANGED <<ls, fb, cacheVars, retryVars, pageVars, routeVars, auxVars>>

BreakerNext == DoRecordFailure \/ DoShouldBlock \/ DoResetOnSuccess \/ BreakerTick

SpecBreaker == BreakerInit /\ [][BreakerNext]_vars

(*************************************************************************)
(* Specification of the page: login, mount, the fetch invocations        *)
(* started by the mount effect and by the retry / refresh buttons, the   *)
(* responses of the remote API, the timers, connectivity and time.       *)
(*************************************************************************)
PageTokens == {Jwt(TokenExpSec), Jwt(0)}
PageSteps == {BackoffBase, CooldownMs, FallbackMaxAge}

Max(a, b) == IF a >= b THEN a ELSE b

Init ==
  /\ now = 0
  /\ ticks = 0
  /\ ls = FreshStorage
  /\ lastLoad = NoLoad
  /\ RetryIdle
  /\ BreakerIdle
  /\ PageIdle
  /\ RouteIdle
  /\ AuxIdle

\* what a step leaves of the React state, the fallbacks objects and the
\* fetches in flight: u, heap and fs are their values as the handlers left
\* them, c the object of the render that ran, rerender whether a state
\* setter changed the state, mounted whether the page is still mounted,
\* s0 the object whose listener was subscribed.  A render builds a new
\* object, under an identity nobody holds; the effect on [error]
\* subscribes the listener of the render in which error changed.
Commit(u, heap, fs, c, rerender, mounted, s0) ==
  LET left == IF mounted THEN fs ELSE Orphaned(fs)
      keepSub == mounted /\ u.error = ui.error
      held == Refs(left) \cup (IF keepSub THEN {s0} ELSE {})
      fresh == SetMin(ObjIds \ held)
      nxt == IF mounted /\ ~rerender THEN c ELSE fresh
  IN /\ ui' = IF mounted THEN u ELSE InitialUi
     /\ fetches' = left
     /\ cur' = nxt
     /\ sub' = IF keepSub THEN s0 ELSE nxt
     /\ objs' = [id \in ObjIds |->
                   IF id \in held \/ (id = c /\ mounted /\ ~rerender)
                     THEN heap[id] ELSE FreshFallbacks]

\* the fetch record of a first network attempt made at time t
FirstAttempt(o, t) ==
  [FreeSlot EXCEPT !.pc = "net", !.obj = o, !.t0 = t, !.netCalls = 1]

\* a fetch invocation from the closure over object o, in slot s, while
\* the latest render holds object c; p is the failure history of the
\* mounted page before it
Invoke(type, o, c, u, heap, s, rerender, p, on, s0) ==
  LET b == BeginFetch(o, u, heap, now, on)
      fs == [fetches EXCEPT ![s] = IF b.outcome = "net"
                                     THEN [FirstAttempt(o, now) EXCEPT !.n = started]
                                     ELSE FreeSlot]
  IN /\ ls' = b.store
     /\ loc' = IF b.outcome = "redirect" THEN "login" ELSE "page"
     /\ Commit(b.ui, b.heap, fs, c, rerender \/ b.ui # u, b.outcome # "redirect", s0)
     /\ started' = started + 1
     /\ late' = late
     /\ pg' = PgCooldown(p, now)
     /\ ev' = [NoEv EXCEPT !.type = type, !.begun = TRUE,
                          !.ended = b.outcome # "net",
                          !.outcome = IF b.outcome = "net" THEN "none" ELSE b.outcome,
                          !.sessionInvalid = ~b.valid,
                          !.redirected = b.outcome = "redirect",
                          !.loadedCache = b.outcome = "offlineCache",
                          !.banner = b.outcome \in {"blocked", "offlineCache"},
                          !.netCalls = IF b.outcome = "net" THEN 1 ELSE 0,
                          !.seen = b.seen,
                          !.expected = PgCooldown(p, now).count,
                          !.hot = p.count >= FailureThreshold /\ now - p.first < CooldownMs]

\* handleSubmit of the login page with an accepted login: the session is
\* stored and navigate('/dashboard') is called
Login(limit) ==
  \E tok \in PageTokens :
    /\ loc = "login"
    /\ online
    /\ started < limit
    /\ ls' = StoreSession(ls, AdminEmail, tok, now)
    /\ loc' = "mounting"
    /\ ev' = [NoEv EXCEPT !.type = "login"]
    /\ UNCHANGED <<now, ticks, cacheVars, retryVars, breakerVars, routeVars,
                   online, ui, cur, sub, objs, fetches, started, late, pg, auxVars>>

\* first render of the page and its mount effect: the cached payload of
\* initFromCache is shown and fetchOverviewData() is called
Mount ==
  /\ loc = "mounting"
  /\ InFlight(fetches) # Slots
  /\ LET s == SetMin(Slots \ InFlight(fetches))
         o == SetMin(ObjIds \ Refs(fetches))
         init == InitFromCache(ls, now)
         u0 == IF init # NullData
                 THEN [InitialUi EXCEPT !.data = init, !.cached = init]
                 ELSE InitialUi
         heap == [objs EXCEPT ![o] = FreshFallbacks]
     IN Invoke("mount", o, o, u0, heap, s, u0 # InitialUi, NoPg, online, o)
  /\ UNCHANGED <<now, ticks, cacheVars, retryVars, breakerVars, routeVars, online, auxVars>>

\* handleRetry, behind the "Try Again" and "Refresh Data" buttons:
\* setRetryCount, then fetchOverviewData(true) of the render on screen
HandleRetry(limit) ==
  /\ loc = "page"
  /\ ~(ui.loading /\ ui.cached = NullData)
  /\ started < limit
  /\ InFlight(fetches) # Slots
  /\ Invoke("retryClick", cur, cur, ui, objs, SetMin(Slots \ InFlight(fetches)), TRUE, pg,
            online, sub)
  /\ UNCHANGED <<now, ticks, cacheVars, retryVars, breakerVars, routeVars, online, auxVars>>

\* the state setters of fetch f reach the page on screen
Reaches(f) == loc = "page" /\ ~f.orphan

\* the network calls left pending once an attempt failed with kind:
\* withTimeout rejects on its timer and leaves the fetch() it raced alone
LateCancelled(kind, pending) == pending

LateAfter(kind, pending) == IF kind = "timeout" THEN pending + 1 ELSE pending

\* retry returned the data of a network attempt
Succeed(s, p, t, full) ==
  LET f == fetches[s]
      r == FinishOk(f, ui, objs, p, t, full)
      u == IF Reaches(f) THEN r.ui ELSE ui
      fs == [g \in Slots |->
               IF g = s THEN FreeSlot
               ELSE IF fetches[g].pc = "free" \/ full THEN fetches[g]
               ELSE [fetches[g] EXCEPT
                       !.met = IF f.n > fetches[g].n THEN "later" ELSE "earlier"]]
  IN /\ ls' = r.store
     /\ loc' = loc
     /\ Commit(u, r.heap, fs, cur, u # ui, loc = "page", sub)
     /\ pg' = IF ~Reaches(f) THEN pg
              ELSE IF r.outcome = "ready" THEN PgSuccess(pg)
              ELSE PgFailure(PgSuccess(pg), t)
     /\ ev' = [NoEv EXCEPT !.type = "response", !.ended = TRUE, !.outcome = r.outcome,
                          !.recorded = r.outcome # "ready",
                          !.loadedCache = r.loaded,
                          !.banner = r.banner,
                          !.netCalls = f.netCalls,
                          !.reached = Reaches(f),
                          !.fetched = p,
                          !.saveFailed = full,
                          !.met = f.met,
                          !.replaced = ls.cache[PageKey].data]
     /\ UNCHANGED <<started, late>>

\* a network attempt failed at time t: fetchFn (which on a 401 removes the
\* session and navigates to the login page) threw, then the catch block
\* of retry, then, when retry throws, the catch block of fetchOverviewData
Fail(s, kind, t) ==
  LET f == fetches[s]
      err == [kind |-> kind, attempt |-> f.i]
      last == UpdateLastError(f.lastError, err)
      store == IF kind = "auth" THEN RemoveEmailAndToken(ls) ELSE ls
      where == IF kind = "auth" THEN "login" ELSE loc
      thrown == RetryCatch("Dashboard", f.i, PageMaxRetries, err) = "throw"
      r == FinishFailed(f, ui, objs, store, last.kind, t)
      u == IF thrown /\ Reaches(f) THEN r.ui ELSE ui
      fs == [fetches EXCEPT ![s] =
               IF thrown THEN FreeSlot
               ELSE [f EXCEPT !.pc = "wait", !.wake = t + Backoff(f.i), !.lastError = last]]
  IN /\ ls' = store
     /\ loc' = where
     /\ Commit(u, IF thrown THEN r.heap ELSE objs, fs, cur, u # ui, where = "page", sub)
     /\ pg' = IF thrown /\ Reaches(f) THEN PgFailure(pg, t) ELSE pg
     /\ ev' = [NoEv EXCEPT !.type = "response", !.ended = thrown,
                          !.outcome = IF thrown THEN r.outcome ELSE "none",
                          !.got401 = kind = "auth",
                          !.redirected = kind = "auth",
                          !.recorded = thrown,
                          !.loadedCache = thrown /\ r.loaded,
                          !.banner = thrown /\ r.banner,
                          !.netCalls = f.netCalls,
                          !.reached = Reaches(f),
                          !.kind = kind]
     /\ late' = LateAfter(kind, late)
     /\ UNCHANGED started

\* the remote API answered 200 before the timeout; the storage may be
\* full when the payload is written through
NetOk ==
  \E s \in Slots, p \in Payloads, full \in BOOLEAN :
    /\ fetches[s].pc = "net"
    /\ now - fetches[s].t0 < TimeoutMs
    /\ Succeed(s, p, now, full)
    /\ UNCHANGED <<now, ticks, cacheVars, retryVars, breakerVars, routeVars, online, auxVars>>

\* the remote API answered 401 or another error status, or fetch()
\* rejected, before the timeout
NetFail(kinds) ==
  \E s \in Slots, kind \in kinds :
    /\ fetches[s].pc = "net"
    /\ now - fetches[s].t0 < TimeoutMs
    /\ Fail(s, kind, now)
    /\ UNCHANGED <<now, ticks, cacheVars, retryVars, breakerVars, routeVars, online, auxVars>>

\* the timer of withTimeout fired first
NetTimeout ==
  \E s \in Slots :
    /\ fetches[s].pc = "net"
    /\ now' = Max(now, fetches[s].t0 + TimeoutMs)
    /\ Fail(s, "timeout", now')
    /\ UNCHANGED <<ticks, cacheVars, retryVars, breakerVars, routeVars, online, auxVars>>

\* the timer of the backoff fired: the next round of retry invokes fetchFn
Wake ==
  \E s \in Slots :
    /\ fetches[s].pc = "wait"
    /\ now' = Max(now, fetches[s].wake)
    /\ fetches' = [fetches EXCEPT ![s] =
                     [@ EXCEPT !.pc = "net", !.i = @ + 1, !.t0 = now',
                               !.wake = NoTime, !.netCalls = @ + 1]]
    /\ ev' = [NoEv EXCEPT !.type = "wake", !.netCalls = fetches[s].netCalls + 1]
    /\ UNCHANGED <<ticks, ls, cacheVars, retryVars, breakerVars, routeVars,
                   online, loc, ui, cur, sub, objs, started, late, pg, auxVars>>

\* the offline event: isOnline = false; the subscribed listener does
\* nothing with false
GoOffline ==
  /\ online
  /\ online' = FALSE
  /\ ev' = [NoEv EXCEPT !.type = "offline"]
  /\ UNCHANGED <<now, ticks, ls, cacheVars, retryVars, breakerVars, routeVars,
                 loc, ui, cur, sub, objs, fetches, started, late, pg, auxVars>>

\* the online event: isOnline = true, then the subscribed listener,
\* which calls fetchOverviewData(true) when its render held an error
GoOnline(limit) ==
  /\ ~online
  /\ online' = TRUE
  /\ IF loc = "page" /\ ui.error # MsgNone
       THEN /\ started < limit
            /\ InFlight(fetches) # Slots
            /\ Invoke("autoRetry", sub, cur, ui, objs, SetMin(Slots \ InFlight(fetches)),
                      FALSE, pg, TRUE, sub)
       ELSE /\ ev' = [NoEv EXCEPT !.type = "online"]
            /\ UNCHANGED <<ls, loc, ui, cur, sub, objs, fetches, started, late, pg>>
  /\ UNCHANGED <<now, ticks, cacheVars, retryVars, breakerVars, routeVars, auxVars>>

\* the remote API answers a call withTimeout gave up on: the promise
\* of fetch() settles and nothing is chained on it
AbandonedCompletes ==
  /\ late > 0
  /\ late' = late - 1
  /\ ev' = [NoEv EXCEPT !.type = "late"]
  /\ UNCHANGED <<now, ticks, ls, cacheVars, retryVars, breakerVars, routeVars,
                 online, loc, ui, cur, sub, objs, fetches, started, pg, auxVars>>

PageTick ==
  \E d \in PageSteps :
    /\ ticks < MaxPageTicks
    /\ now' = now + d
    /\ ticks' = ticks + 1
    /\ ev' = [NoEv EXCEPT !.type = "tick"]
    /\ UNCHANGED <<ls, cacheVars, retryVars, breakerVars, routeVars,
                   online, loc, ui, cur, sub, objs, fetches, started, late, pg, auxVars>>

Next ==
  \/ Login(MaxStarted) \/ Mount \/ HandleRetry(MaxStarted)
  \/ NetOk \/ NetFail({"auth", "http", "network"}) \/ NetTimeout \/ Wake
  \/ GoOffline \/ GoOnline(MaxStarted) \/ AbandonedCompletes \/ PageTick

Spec == Init /\ [][Next]_vars

(*************************************************************************)
(* Specification of the page during an outage of the remote API: every   *)
(* network attempt is answered by an error status, and the               *)
(* administrator keeps pressing "Try Again".                             *)
(*************************************************************************)
OutageNext ==
  \/ Login(MaxOutageStarted) \/ Mount \/ HandleRetry(MaxOutageStarted)
  \/ NetFail({"http"}) \/ Wake \/ PageTick

SpecOutage == Init /\ [][OutageNext]_vars

(*************************************************************************)
(* The page under fair scheduling: the network attempt of a fetch in     *)
(* flight eventually succeeds, fails or hits its timeout, and the timer  *)
(* of a backoff eventually fires.                                        *)
(*************************************************************************)
Settle == NetOk \/ NetFail({"auth", "http", "network"}) \/ NetTimeout \/ Wake

LiveNext ==
  \/ Login(MaxStarted) \/ Mount \/ HandleRetry(MaxStarted)
  \/ GoOffline \/ GoOnline(MaxStarted) \/ Settle

SpecLive == Init /\ [][LiveNext]_vars /\ WF_vars(Settle)

(*************************************************************************)
(* Specification of overlapping fetches: the remote API answers or is    *)
(* slow, and the administrator presses "Refresh Data" while a fetch is   *)
(* in flight.                                                            *)
(*************************************************************************)
OverlapNext ==
  \/ Login(MaxOverlapStarted) \/ Mount \/ HandleRetry(MaxOverlapStarted)
  \/ NetOk \/ NetTimeout \/ Wake \/ AbandonedCompletes

SpecOverlap == Init /\ [][OverlapNext]_vars

(*************************************************************************)
(* Specification of the routing: the login, the ProtectedRoute around    *)
(* the authenticated views, its session monitor and time.                *)
(*************************************************************************)
RouteTokens == {Jwt(TokenExpSec), Jwt(0), JwtBad, Opaque(TRUE), Opaque(FALSE), NoToken}
RouteSteps == {BackoffBase, SessionMonitorMs, SessionMaxAgeMs}

RouteInit ==
  /\ now = 0
  /\ ticks = 0
  /\ ls = FreshStorage
  /\ lastLoad = NoLoad
  /\ RetryIdle
  /\ BreakerIdle
  /\ PageIdle
  /\ route \in {FreshRoute(impl) : impl \in RouteImpls}
  /\ AuxIdle

\* the render of ProtectedRoute: the storage and the route it leaves.
\* The monitored route starts with isValid = true and returns its
\* children; its effect is still to run.
RenderRoute(r, store) ==
  IF r.impl = "monitored"
    THEN [store |-> store,
          route |-> [r EXCEPT !.at = "view", !.shown = TRUE, !.pending = TRUE]]
  ELSE IF store.email # NoEmail /\ store.token # NoToken
    THEN [store |-> store,
          route |-> [r EXCEPT !.at = "view", !.shown = TRUE]]
  ELSE [store |-> RemoveEmailAndToken(store), route |-> r]

\* handleSubmit of the login page with an accepted login, then the
\* render of the route it navigates to
SubmitLogin ==
  \E tok \in RouteTokens :
    /\ route.at = "login"
    /\ LET r == RenderRoute(route, StoreSession(ls, AdminEmail, tok, now))
       IN ls' = r.store /\ route' = r.route
    /\ UNCHANGED <<now, ticks, cacheVars, retryVars, breakerVars, pageVars, auxVars>>

\* the address of an authenticated view is opened with the storage as
\* it is
OpenView ==
  /\ route.at = "login"
  /\ LET r == RenderRoute(route, ls)
     IN ls' = r.store /\ route' = r.route
  /\ UNCHANGED <<now, ticks, cacheVars, retryVars, breakerVars, pageVars, auxVars>>

\* the effect of the monitored route: checkSession, then
\* startSessionMonitor
RouteEffect ==
  /\ route.pending
  /\ IF ~AppValidateSession(ls) \/ CheckTokenExpiry(ls, now)
       THEN /\ ls' = CleanSession(ls)
            /\ route' = FreshRoute(route.impl)
       ELSE /\ ls' = ls
            /\ route' = [route EXCEPT !.pending = FALSE,
                                      !.nextCheck = now + SessionMonitorMs]
  /\ UNCHANGED <<now, ticks, cacheVars, retryVars, breakerVars, pageVars, auxVars>>

\* the interval of startSessionMonitor fires
MonitorFires ==
  /\ route.nextCheck = now
  /\ IF CheckTokenExpiry(ls, now)
       THEN /\ ls' = CleanSession(ls)
            /\ route' = FreshRoute(route.impl)
       ELSE /\ ls' = ls
            /\ route' = [route EXCEPT !.nextCheck = now + SessionMonitorMs]
  /\ UNCHANGED <<now, ticks, cacheVars, retryVars, breakerVars, pageVars, auxVars>>

\* the page in the view got a 401, or found its session invalid: it
\* removes adminEmail and adminToken and navigates to the login page
PageForcesLogin ==
  /\ route.at = "view"
  /\ ~route.pending
  /\ ls' = RemoveEmailAndToken(ls)
  /\ route' = FreshRoute(route.impl)
  /\ UNCHANGED <<now, ticks, cacheVars, retryVars, breakerVars, pageVars, auxVars>>

\* time passes, never past a pending effect or a due interval
RouteTick ==
  \E d \in RouteSteps :
    /\ ticks < MaxRouteTicks
    /\ ~route.pending
    /\ route.nextCheck # NoTime => now + d <= route.nextCheck
    /\ now' = now + d
    /\ ticks' = ticks + 1
    /\ UNCHANGED <<ls, cacheVars, retryVars, breakerVars, pageVars, routeVars, auxVars>>

RouteNext ==
  \/ SubmitLogin \/ OpenView \/ RouteEffect \/ MonitorFires
  \/ PageForcesLogin \/ RouteTick

SpecRoute == RouteInit /\ [][RouteNext]_vars

(*************************************************************************)
(* Specification of the catch block of a fetch alone: an error of each   *)
(* kind, with each state of the cache entry and of the network monitor.  *)
(*************************************************************************)
CatchAges == {BackoffBase, FallbackMaxAge - 1, FallbackMaxAge}

CatchInit ==
  /\ ticks = 0
  /\ now \in CatchAges
  /\ \E cached \in {NullData} \cup Payloads :
       ls = IF cached = NullData THEN FreshStorage
            ELSE [FreshStorage EXCEPT
                    !.cache = [k \in CacheKeys |-> [data |-> cached, timestamp |-> 0]]]
  /\ lastLoad = NoLoad
  /\ RetryIdle
  /\ BreakerIdle
  /\ PageIdle
  /\ RouteIdle
  /\ NetIdle
  /\ \E impl \in CatchImpls, kind \in ErrorKinds, on \in BOOLEAN :
       /\ impl = "DashboardBasic" => kind # "timeout"
       /\ calc = [op |-> "catch", impl |-> impl, kind |-> kind, on |-> on,
                  done |-> FALSE, data |-> NullData, error |-> MsgNone]

\* the catch block runs
DoCatch ==
  /\ calc.op = "catch"
  /\ ~calc.done
  /\ LET r == CatchBlock(calc.impl, ls, calc.kind, calc.on, now)
     IN calc' = [calc EXCEPT !.done = TRUE, !.data = r.data, !.error = r.error]
  /\ UNCHANGED <<now, ticks, ls, cacheVars, retryVars, breakerVars, pageVars,
                 routeVars, net>>

CatchNext == DoCatch

SpecCatch == CatchInit /\ [][CatchNext]_vars

(*************************************************************************)
(* Bookings: a booking as the API returns it, the normalisation applied  *)
(* to a fetched list, the revenue total and the status label of a view.  *)
(* A field the API left out is Undefined; a || b keeps a unless a is     *)
(* falsy, and 0 is falsy.                                                *)
(*************************************************************************)
Undefined == -1
PadelPrice == 400
OtherPrice == 150
NoStatus == "undefined"

Statuses == {"confirmed", "cancelled", "Cancelled", NoStatus}
CourtTypes == {"padel", "Padel", "tennis"}
Prices == {Undefined, 0, 200}
Revenues == {Undefined, 300}
Bookings == [status : Statuses, price : Prices, revenue : Revenues,
             courtType : CourtTypes]

RECURSIVE ListsUpTo(_, _)
ListsUpTo(S, n) ==
  IF n = 0 THEN {<<>>}
  ELSE LET shorter == ListsUpTo(S, n - 1)
       IN shorter \cup {Append(l, x) : l \in {m \in shorter : Len(m) = n - 1}, x \in S}

BookingLists == ListsUpTo(Bookings, MaxBookings)

Truthy(x) == x # Undefined /\ x # 0
OrElse(a, b) == IF Truthy(a) THEN a ELSE b

ToLowerCase(s) ==
  CASE s = "Cancelled" -> "cancelled"
    [] s = "Padel" -> "padel"
    [] OTHER -> s

IsCancelled(b) == ToLowerCase(b.status) = "cancelled"
CourtDefault(b) == IF ToLowerCase(b.courtType) = "padel" THEN PadelPrice ELSE OtherPrice

ViewImpls == {"Dashboard", "DashboardBasic", "History", "HistoryBasic"}

\* the normalisation of one fetched booking
NormalizeBooking(impl, b) ==
  CASE impl \in {"Dashboard", "DashboardBasic"} ->
         [b EXCEPT !.price = OrElse(OrElse(b.price, b.revenue), CourtDefault(b))]
    [] impl = "History" ->
         [b EXCEPT !.revenue = OrElse(OrElse(b.price, b.revenue), CourtDefault(b))]
    [] OTHER -> b

Normalize(impl, list) == [i \in 1..Len(list) |-> NormalizeBooking(impl, list[i])]

\* whether the revenue total of the view adds the booking
Counted(impl, b) == impl = "HistoryBasic" \/ ~IsCancelled(b)

\* what the revenue total of the view adds for a booking it counts
BookingAmount(impl, b) ==
  CASE impl \in {"Dashboard", "DashboardBasic"} ->
         OrElse(OrElse(b.price, b.revenue), 0)
    [] impl = "History" ->
         OrElse(OrElse(b.price, b.revenue), CourtDefault(b))
    [] OTHER -> OrElse(b.revenue, 0)

RECURSIVE CalculateRevenue(_, _)
CalculateRevenue(impl, list) ==
  IF list = <<>> THEN 0
  ELSE LET b == list[Len(list)]
       IN CalculateRevenue(impl, SubSeq(list, 1, Len(list) - 1))
            + (IF Counted(impl, b) THEN BookingAmount(impl, b) ELSE 0)

\* the price cell of a booking's row
DisplayedPrice(impl, b) ==
  CASE impl \in {"Dashboard", "DashboardBasic"} -> b.price
    [] impl = "History" -> OrElse(OrElse(b.price, b.revenue), CourtDefault(b))
    [] OTHER -> b.revenue

\* the text of a booking's status pill
StatusLabel(impl, b) ==
  IF impl = "HistoryBasic"
  THEN (IF b.status = NoStatus THEN "Paid" ELSE b.status)
  ELSE (IF b.status = "cancelled" THEN "Cancelled" ELSE "Paid")

(*************************************************************************)
(* Specification of a booking list through a view: fetched, normalised,  *)
(* rendered with its total and its labels.                               *)
(*************************************************************************)
BookingsInit ==
  /\ ticks = 0
  /\ now = 0
  /\ ls = FreshStorage
  /\ lastLoad = NoLoad
  /\ RetryIdle
  /\ BreakerIdle
  /\ PageIdle
  /\ RouteIdle
  /\ NetIdle
  /\ \E impl \in ViewImpls, raw \in BookingLists :
       calc = [op |-> "bookings", impl |-> impl, stage |-> "fetched",
               raw |-> raw, list |-> raw, total |-> 0, labels |-> <<>>]

\* the success path of the fetch normalises the list and stores it
NormalizeFetched ==
  /\ calc.op = "bookings"
  /\ calc.stage = "fetched"
  /\ calc' = [calc EXCEPT !.stage = "normalized",
                          !.list = Normalize(calc.impl, calc.raw)]
  /\ UNCHANGED <<now, ticks, ls, cacheVars, retryVars, breakerVars, pageVars,
                 routeVars, net>>

\* the render computes the revenue total and the label of every row
RenderBookings ==
  /\ calc.op = "bookings"
  /\ calc.stage = "normalized"
  /\ calc' = [calc EXCEPT
                !.stage = "rendered",
                !.total = CalculateRevenue(calc.impl, calc.list),
                !.labels = [i \in 1..Len(calc.list) |->
                              StatusLabel(calc.impl, calc.list[i])]]
  /\ UNCHANGED <<now, ticks, ls, cacheVars, retryVars, breakerVars, pageVars,
                 routeVars, net>>

BookingsNext == NormalizeFetched \/ RenderBookings

SpecBookings == BookingsInit /\ [][BookingsNext]_vars

(*************************************************************************)
(* Specification of the session expiry check alone: each kind of stored  *)
(* token, with and without a stored login time, at times around the      *)
(* token's exp claim and around the 24 hours of the session.             *)
(*************************************************************************)
ExpiryTimes ==
  {BackoffBase, TokenExpSec * 1000 - 1, TokenExpSec * 1000,
   TokenExpSec * 1000 + 1, SessionMaxAgeMs, SessionMaxAgeMs + 1}
ExpiryLoginTimes == {NoTime, 0, BackoffBase}

ExpiryInit ==
  /\ ticks = 0
  /\ now \in ExpiryTimes
  /\ \E tok \in RouteTokens, lt \in ExpiryLoginTimes :
       ls = [FreshStorage EXCEPT !.email = AdminEmail, !.token = tok,
                                 !.loginTime = lt]
  /\ lastLoad = NoLoad
  /\ RetryIdle
  /\ BreakerIdle
  /\ PageIdle
  /\ RouteIdle
  /\ NetIdle
  /\ calc = [op |-> "expiry", done |-> FALSE, expired |-> FALSE,
             checked |-> FALSE, pageValid |-> FALSE, appValid |-> FALSE]

\* checkTokenExpiry runs
DoCheckExpiry ==
  /\ calc.op = "expiry"
  /\ ~calc.done
  /\ calc' = [calc EXCEPT !.done = TRUE, !.expired = CheckTokenExpiry(ls, now)]
  /\ UNCHANGED <<now, ticks, ls, cacheVars, retryVars, breakerVars, pageVars,
                 routeVars, net>>

\* what checkSession of ProtectedRoute and of the session monitor accept:
\* credentials present, validateSession, and not checkTokenExpiry
AppSessionValid(store, t) ==
  /\ store.email # NoEmail /\ store.token # NoToken
  /\ AppValidateSession(store)
  /\ ~CheckTokenExpiry(store, t)

\* the same stored session is put to the validateSession of a page and to
\* the checkSession of the application
DoValidateSession ==
  /\ calc.op = "expiry"
  /\ ~calc.checked
  /\ calc' = [calc EXCEPT !.checked = TRUE,
                          !.pageValid = PageValidateSession(ls, now),
                          !.appValid = AppSessionValid(ls, now)]
  /\ UNCHANGED <<now, ticks, ls, cacheVars, retryVars, breakerVars, pageVars,
                 routeVars, net>>

ExpiryNext == DoCheckExpiry \/ DoValidateSession

SpecExpiry == ExpiryInit /\ [][ExpiryNext]_vars

(*************************************************************************)
(* Network monitor: isOnline, the list of listeners, subscribe and the   *)
(* function it returns, and the handlers init() put on the window's      *)
(* online and offline events.  A listener is a function, named by a      *)
(* number; handles holds one record per call of subscribe, live until    *)
(* the function that call returned has been called.                      *)
(*************************************************************************)
Listeners == 1..NumListeners

\* how many elements of list are the function fn
CountOf(fn, list) == Cardinality({i \in 1..Len(list) : list[i] = fn})

\* this.listeners.filter(l => l !== listener)
FilterOut(fn, list) == SelectSeq(list, LAMBDA l : l # fn)

\* this.listeners.forEach(fn => fn(value)): the calls made, in order
ForEachCall(list, value) == [i \in 1..Len(list) |-> [fn |-> list[i], value |-> value]]

NoNetEvent == [kind |-> "none", fn |-> 0, value |-> FALSE, before |-> <<>>,
               calls |-> <<>>]

NetInit ==
  /\ ticks = 0
  /\ now = 0
  /\ ls = FreshStorage
  /\ lastLoad = NoLoad
  /\ RetryIdle
  /\ BreakerIdle
  /\ PageIdle
  /\ RouteIdle
  /\ CalcIdle
  /\ \E on \in BOOLEAN :
       net = [op |-> "net", isOnline |-> on, listeners |-> <<>>,
              handles |-> <<>>, transitions |-> 0, last |-> NoNetEvent]

\* network.subscribe(listener)
Subscribe ==
  \E fn \in Listeners :
    /\ net.op = "net"
    /\ Len(net.handles) < MaxSubscriptions
    /\ net' = [net EXCEPT
                 !.listeners = Append(net.listeners, fn),
                 !.handles = Append(net.handles, [fn |-> fn, live |-> TRUE]),
                 !.last = [NoNetEvent EXCEPT !.kind = "subscribe", !.fn = fn,
                                             !.before = net.listeners]]
    /\ UNCHANGED <<now, ticks, ls, cacheVars, retryVars, breakerVars, pageVars,
                   routeVars, calc>>

\* the function a call of subscribe returned is called
Unsubscribe ==
  \E h \in DOMAIN net.handles :
    /\ net.op = "net"
    /\ net.handles[h].live
    /\ net' = [net EXCEPT
                 !.listeners = FilterOut(net.handles[h].fn, net.listeners),
                 !.handles[h].live = FALSE,
                 !.last = [NoNetEvent EXCEPT !.kind = "unsubscribe",
                                             !.fn = net.handles[h].fn,
                                             !.before = net.listeners]]
    /\ UNCHANGED <<now, ticks, ls, cacheVars, retryVars, breakerVars, pageVars,
                   routeVars, calc>>

\* the window fires online or offline: the handler of init() sets
\* isOnline and calls every listener of the list
Transition ==
  /\ net.op = "net"
  /\ net.transitions < MaxTransitions
  /\ LET value == ~net.isOnline
     IN net' = [net EXCEPT
                  !.isOnline = value,
                  !.transitions = net.transitions + 1,
                  !.last = [NoNetEvent EXCEPT !.kind = "transition", !.value = value,
                                              !.before = net.listeners,
                                              !.calls = ForEachCall(net.listeners, value)]]
  /\ UNCHANGED <<now, ticks, ls, cacheVars, retryVars, breakerVars, pageVars,
                 routeVars, calc>>

NetNext == Subscribe \/ Unsubscribe \/ Transition

SpecNet == NetInit /\ [][NetNext]_vars

(*************************************************************************)
(* Derived view state of the History page and of the tabbed Dashboard:   *)
(* the loaded list, the displayed list, the view tab, the search text,   *)
(* the date range, the court and status filters and the sort indicator.  *)
(* An instant is a day number and the milliseconds since that day's      *)
(* midnight; a text is the tuple of its characters.                      *)
(*************************************************************************)
DayMs == 86400000
WindowDays == 30

At(day, ms) == [day |-> day, ms |-> ms]
Earlier(a, b) == a.day < b.day \/ (a.day = b.day /\ a.ms < b.ms)
NotLater(a, b) == a = b \/ Earlier(a, b)

\* new Date(now.setHours(0, 0, 0, 0)) and setHours(23, 59, 59, 999)
StartOfDay(t) == At(t.day, 0)
EndOfDay(t) == At(t.day, DayMs - 1)

CategorizeImpls == {"History", "Dashboard"}
Views == {"today", "upcoming", "past"}

\* categorizeBookings with an upcoming category that starts at the last
\* millisecond of today instead of after it
InCategoryOverlapping(impl, b, view, t) ==
  LET today == StartOfDay(t)
      endOfToday == EndOfDay(t)
  IN CASE view = "today" ->
            NotLater(today, b.date) /\ NotLater(b.date, endOfToday)
       [] view = "upcoming" ->
            /\ NotLater(endOfToday, b.date)
            /\ impl = "History" => NotLater(b.date, At(t.day + WindowDays, DayMs - 1))
       [] view = "past" ->
            /\ Earlier(b.date, today)
            /\ impl = "History" => NotLater(At(t.day - WindowDays, 0), b.date)
       [] OTHER -> TRUE

\* whether categorizeBookings puts booking b in category view at time t
InCategory(impl, b, view, t) ==
  LET today == StartOfDay(t)
      endOfToday == EndOfDay(t)
      thirtyDaysAgo == At(t.day - WindowDays, 0)
      thirtyDaysFromNow == At(t.day + WindowDays, DayMs - 1)
  IN CASE view = "today" ->
            NotLater(today, b.date) /\ NotLater(b.date, endOfToday)
       [] view = "upcoming" ->
            /\ Earlier(endOfToday, b.date)
            /\ impl = "History" => NotLater(b.date, thirtyDaysFromNow)
       [] view = "past" ->
            /\ Earlier(b.date, today)
            /\ impl = "History" => NotLater(thirtyDaysAgo, b.date)
       [] OTHER -> TRUE

CategorizeBookings(impl, list, view, t) ==
  SelectSeq(list, LAMBDA b : InCategory(impl, b, view, t))

\* the characters of the strings the search reads
CharsOf(s) ==
  CASE s = "padel" -> <<"p", "a", "d", "e", "l">>
    [] s = "Padel" -> <<"P", "a", "d", "e", "l">>
    [] s = "tennis" -> <<"t", "e", "n", "n", "i", "s">>
    [] OTHER -> <<>>

LowerChar(c) ==
  CASE c = "A" -> "a" [] c = "B" -> "b" [] c = "N" -> "n" [] c = "P" -> "p"
    [] OTHER -> c

LowerText(s) == [i \in 1..Len(s) |-> LowerChar(s[i])]

\* s.includes(term)
Includes(s, term) ==
  \E i \in 0..(Len(s) - Len(term)) : SubSeq(s, i + 1, i + Len(term)) = term

\* the search predicate of the filter effect (phoneNumber, email and
\* notes are not in the bookings of the model; the id has no letter)
MatchesSearch(b, searchTerm) ==
  LET term == LowerText(searchTerm)
  IN \/ Includes(LowerText(b.customerName), term)
     \/ Includes(LowerText(CharsOf(b.courtType)), term)

NoDay == [set |-> FALSE, day |-> 0]
OnDay(d) == [set |-> TRUE, day |-> d]

\* whether booking b passes every filter of the filter effect
PassesFilters(v, b) ==
  /\ InCategory("History", b, v.activeView, v.clock)
  /\ v.searchTerm # <<>> => MatchesSearch(b, v.searchTerm)
  /\ v.dateRange.start.set => NotLater(At(v.dateRange.start.day, 0), b.date)
  /\ v.dateRange.end.set => NotLater(b.date, At(v.dateRange.end.day, 0))
  /\ v.courtFilter # "all" => ToLowerCase(b.courtType) = ToLowerCase(v.courtFilter)
  /\ v.statusFilter # "all" => ToLowerCase(b.status) = ToLowerCase(v.statusFilter)

\* the effect on [activeView, bookings] alone: applyViewFilter
ApplyViewFilter(v) ==
  IF Len(v.bookings) > 0
    THEN CategorizeBookings("History", v.bookings, v.activeView, v.clock)
    ELSE v.filtered

\* the effects that run after a change of v, in the order of their
\* definition: applyViewFilter, then the filter effect, whose
\* setFilteredBookings is the last
ApplyFilters(v) == SelectSeq(v.bookings, LAMBDA b : PassesFilters(v, b))

\* the comparator of requestSort
SortValue(b, key) == IF key = "date" THEN b.date ELSE At(0, OrElse(b.price, 0))

Compare(a, b, key, direction) ==
  IF Earlier(SortValue(a, key), SortValue(b, key))
    THEN (IF direction = "asc" THEN -1 ELSE 1)
  ELSE IF Earlier(SortValue(b, key), SortValue(a, key))
    THEN (IF direction = "asc" THEN 1 ELSE -1)
  ELSE 0

\* x put into the sorted list s behind every element that does not
\* compare after it
RECURSIVE InsertSorted(_, _, _, _)
InsertSorted(s, x, key, direction) ==
  IF s = <<>> THEN <<x>>
  ELSE IF Compare(s[Len(s)], x, key, direction) <= 0 THEN Append(s, x)
  ELSE Append(InsertSorted(SubSeq(s, 1, Len(s) - 1), x, key, direction), s[Len(s)])

\* [...list].sort(comparator): the stable sort
RECURSIVE SortBy(_, _, _)
SortBy(list, key, direction) ==
  IF list = <<>> THEN <<>>
  ELSE InsertSorted(SortBy(SubSeq(list, 1, Len(list) - 1), key, direction),
                    list[Len(list)], key, direction)

\* the direction requestSort(key) chooses
NextDirection(sortConfig, key) ==
  IF sortConfig.key = key /\ sortConfig.direction = "asc" THEN "desc" ELSE "asc"

\* the list the page displays
Displayed(v) ==
  IF v.impl = "Dashboard"
    THEN CategorizeBookings("Dashboard", v.bookings, v.activeView, v.clock)
    ELSE v.filtered

(*************************************************************************)
(* Specification of the derived view state.                              *)
(*************************************************************************)
ViewDates ==
  {At(0 - WindowDays - 1, DayMs - 1), At(0 - WindowDays, 0), At(-1, DayMs - 1),
   At(0, 0), At(0, DayMs - 1), At(1, 0), At(WindowDays, DayMs - 1),
   At(WindowDays + 1, 0)}

ViewBookings ==
  {[date |-> d,
    customerName |-> IF d.ms = 0 THEN <<"A", "n", "n">> ELSE <<"B", "o", "b">>,
    courtType |-> IF d.day < 0 THEN "Padel" ELSE IF d.day = 0 THEN "padel" ELSE "tennis",
    status |-> IF d.ms = 0 THEN "confirmed" ELSE "cancelled",
    price |-> IF d.day > 0 THEN OtherPrice ELSE IF d.ms = 0 THEN PadelPrice ELSE Undefined]
     : d \in ViewDates}

ViewLists == ListsUpTo(ViewBookings, MaxViewBookings)
SearchTerms == {<<>>, <<"A", "N">>, <<"p", "a">>}
SortKeys == {"date", "price"}

ViewInit ==
  /\ ticks = 0
  /\ now = 0
  /\ ls = StoreSession(FreshStorage, AdminEmail, Opaque(TRUE), 0)
  /\ lastLoad = NoLoad
  /\ RetryIdle
  /\ BreakerIdle
  /\ PageIdle
  /\ RouteIdle
  /\ NetIdle
  /\ \E impl \in CategorizeImpls, ms \in {0, DayMs - 1} :
       calc = [op |-> "view", impl |-> impl, clock |-> At(0, ms),
               bookings |-> <<>>, filtered |-> <<>>,
               activeView |-> "today", searchTerm |-> <<>>,
               dateRange |-> [start |-> NoDay, end |-> NoDay],
               courtFilter |-> "all", statusFilter |-> "all",
               sortConfig |-> [key |-> "date", direction |-> "desc"],
               loads |-> 0]

\* the state setters of a view change, then the effects
RerenderedViewLast(v) == [v EXCEPT !.filtered = ApplyViewFilter([v EXCEPT !.filtered = ApplyFilters(v)])]

Rerendered(v) == [v EXCEPT !.filtered = ApplyFilters([v EXCEPT !.filtered = ApplyViewFilter(v)])]

ViewFrame ==
  UNCHANGED <<now, ticks, ls, cacheVars, retryVars, breakerVars, pageVars,
              routeVars, net>>

\* a fetch succeeded: setBookings, applyViewFilter, cache.save, then the
\* effects on [bookings]
LoadBookings ==
  \E list \in ViewLists :
    /\ calc.op = "view"
    /\ calc.loads < MaxViewLoads
    /\ calc' = Rerendered([calc EXCEPT !.bookings = list, !.loads = calc.loads + 1])
    /\ ls' = CacheSave(ls, IF calc.impl = "History" THEN "history_all"
                           ELSE "dashboard_overview", list, now)
    /\ UNCHANGED <<now, ticks, cacheVars, retryVars, breakerVars, pageVars,
                   routeVars, net>>

\* a tab is clicked: setActiveView(view); a setter given the value the
\* state already has starts no render and no effect
SetActiveView ==
  \E view \in Views :
    /\ calc.op = "view"
    /\ view # calc.activeView
    /\ calc' = Rerendered([calc EXCEPT !.activeView = view])
    /\ ViewFrame

\* the search box changes: setSearchTerm(text)
SetSearchTerm ==
  \E text \in SearchTerms :
    /\ calc.op = "view" /\ calc.impl = "History"
    /\ text # calc.searchTerm
    /\ calc' = Rerendered([calc EXCEPT !.searchTerm = text])
    /\ ViewFrame

\* a date input changes: setDateRange({...dateRange, start}) or (..., end)
SetDateRange ==
  \E d \in {NoDay, OnDay(0)}, which \in {"start", "end"} :
    /\ calc.op = "view" /\ calc.impl = "History"
    /\ calc' = Rerendered([calc EXCEPT !.dateRange[which] = d])
    /\ ViewFrame

\* setCourtFilter(value)
SetCourtFilter ==
  \E c \in {"all", "padel"} :
    /\ calc.op = "view" /\ calc.impl = "History"
    /\ c # calc.courtFilter
    /\ calc' = Rerendered([calc EXCEPT !.courtFilter = c])
    /\ ViewFrame

\* setStatusFilter(value)
SetStatusFilter ==
  \E s \in {"all", "cancelled"} :
    /\ calc.op = "view" /\ calc.impl = "History"
    /\ s # calc.statusFilter
    /\ calc' = Rerendered([calc EXCEPT !.statusFilter = s])
    /\ ViewFrame

\* a column header is clicked: requestSort(key)
RequestSort ==
  \E key \in SortKeys :
    /\ calc.op = "view" /\ calc.impl = "History"
    /\ LET direction == NextDirection(calc.sortConfig, key)
       IN calc' = [calc EXCEPT
                     !.sortConfig = [key |-> key, direction |-> direction],
                     !.filtered = SortBy(calc.filtered, key, direction)]
    /\ ViewFrame

ViewNext ==
  \/ LoadBookings \/ SetActiveView \/ SetSearchTerm \/ SetDateRange
  \/ SetCourtFilter \/ SetStatusFilter \/ RequestSort

SpecView == ViewInit /\ [][ViewNext]_vars

(*************************************************************************)
(* Login page: handleSubmit and the attempt tracker of LoginFallbacks.   *)
(* LoginFallbacks is an object literal in the body of the component, so  *)
(* every render builds a new attemptTracker with count 0; a handleSubmit *)
(* in flight keeps the tracker of the render it was created in.          *)
(*************************************************************************)
RateLimitCount == 5
RateLimitWindowMs == 900000

MsgLoginNetwork == "Network connection unavailable. Please check your internet."
MsgLoginTimeout == "Request timed out. Please try again."
MsgRateLimit == "Too many attempts. Please wait {minutes} minutes."
MsgLoginFailed == "Login failed"

FreshTracker == [count |-> 0, firstAttempt |-> NoTime]

\* attemptTracker.recordAttempt
RecordAttempt(tr, t) ==
  [count |-> tr.count + 1,
   firstAttempt |-> IF tr.firstAttempt = NoTime THEN t ELSE tr.firstAttempt]

\* attemptTracker.isRateLimited: what it returns and the tracker it leaves
IsRateLimited(tr, t) ==
  IF tr.count >= RateLimitCount /\ tr.firstAttempt # NoTime
    THEN IF t - tr.firstAttempt > RateLimitWindowMs
           THEN [limited |-> FALSE, tracker |-> FreshTracker]
           ELSE [limited |-> TRUE, tracker |-> tr]
    ELSE [limited |-> FALSE, tracker |-> tr]

\* the tracker of the render that follows a state setter: a new one when
\* the state changed, the same object when React skipped the render
TrackerAfter(tr, changed) == IF changed THEN FreshTracker ELSE tr

LoginOutcomes == {"accepted", "acceptedNoToken", "rejected", "timeout", "network"}
LoginSteps == {BackoffBase, RateLimitWindowMs}

NoLoginEvent ==
  [kind |-> "none", sent |-> FALSE, due |-> FALSE, before |-> FreshStorage]

LoginInit ==
  /\ ticks = 0
  /\ now = 0
  /\ ls = FreshStorage
  /\ lastLoad = NoLoad
  /\ RetryIdle
  /\ BreakerIdle
  /\ PageIdle
  /\ RouteIdle
  /\ NetIdle
  /\ calc = [op |-> "login", at |-> "login", loading |-> FALSE, error |-> MsgNone,
             tracker |-> FreshTracker, held |-> FreshTracker,
             submits |-> 0, rejected |-> FreshTracker, last |-> NoLoginEvent]

\* whether the rejections counted since the last reset call for a refusal
\* at time t: 5 or more, the first of them no more than 15 minutes ago
RefusalDue(rej, t) ==
  rej.count >= RateLimitCount /\ t - rej.firstAttempt <= RateLimitWindowMs

\* the form is submitted: the synchronous head of handleSubmit, from the
\* closure of the latest render
LoginSubmit ==
  /\ calc.op = "login" /\ calc.at = "login" /\ ~calc.loading
  /\ calc.submits < MaxLoginSubmits
  /\ LET rl == IsRateLimited(calc.tracker, now)
         ev0 == [NoLoginEvent EXCEPT !.due = RefusalDue(calc.rejected, now),
                                     !.before = ls]
         rej == IF calc.rejected.firstAttempt # NoTime
                     /\ now - calc.rejected.firstAttempt > RateLimitWindowMs
                  THEN FreshTracker ELSE calc.rejected
     IN calc' =
          IF ~online
            THEN [calc EXCEPT !.error = MsgLoginNetwork,
                              !.tracker = TrackerAfter(calc.tracker, calc.error # MsgLoginNetwork),
                              !.submits = @ + 1,
                              !.last = [ev0 EXCEPT !.kind = "offline"]]
          ELSE IF rl.limited
            THEN [calc EXCEPT !.error = MsgRateLimit,
                              !.tracker = TrackerAfter(rl.tracker, calc.error # MsgRateLimit),
                              !.submits = @ + 1,
                              !.last = [ev0 EXCEPT !.kind = "rateLimited"]]
          ELSE [calc EXCEPT !.loading = TRUE, !.error = MsgNone,
                            !.held = rl.tracker,
                            !.tracker = TrackerAfter(rl.tracker, TRUE),
                            !.submits = @ + 1,
                            !.rejected = rej,
                            !.last = [ev0 EXCEPT !.kind = "sent", !.sent = TRUE]]
  /\ UNCHANGED <<now, ticks, ls, cacheVars, retryVars, breakerVars, pageVars,
                 routeVars, net>>

\* retry returned the server's response, or threw: the rest of
\* handleSubmit, with its catch and finally
LoginResponse ==
  \E outcome \in LoginOutcomes :
    /\ calc.op = "login" /\ calc.loading
    /\ LET ev0 == [NoLoginEvent EXCEPT !.kind = outcome, !.before = ls]
       IN CASE outcome \in {"accepted", "acceptedNoToken"} ->
                 /\ ls' = StoreSession(ls, AdminEmail,
                                       IF outcome = "accepted" THEN Opaque(TRUE) ELSE NoToken,
                                       now)
                 /\ calc' = [calc EXCEPT !.at = "dashboard", !.loading = FALSE,
                                         !.held = FreshTracker,
                                         !.tracker = FreshTracker,
                                         !.rejected = FreshTracker,
                                         !.last = ev0]
            [] outcome = "rejected" ->
                 /\ ls' = ls
                 /\ calc' = [calc EXCEPT !.loading = FALSE, !.error = MsgLoginFailed,
                                         !.held = RecordAttempt(calc.held, now),
                                         !.tracker = TrackerAfter(calc.tracker, TRUE),
                                         !.rejected = RecordAttempt(calc.rejected, now),
                                         !.last = ev0]
            [] OTHER ->
                 /\ ls' = ls
                 /\ calc' = [calc EXCEPT !.loading = FALSE,
                                         !.error = IF outcome = "timeout" THEN MsgLoginTimeout
                                                   ELSE IF ~online THEN MsgLoginNetwork
                                                   ELSE "Failed to fetch",
                                         !.tracker = TrackerAfter(calc.tracker, TRUE),
                                         !.last = ev0]
    /\ UNCHANGED <<now, ticks, cacheVars, retryVars, breakerVars, pageVars,
                   routeVars, net>>

\* the online and offline events while the login page is shown
LoginNetwork ==
  /\ calc.op = "login" /\ calc.at = "login"
  /\ online' = ~online
  /\ calc' = [calc EXCEPT !.last = NoLoginEvent]
  /\ UNCHANGED <<now, ticks, ls, cacheVars, retryVars, breakerVars, routeVars,
                 loc, ui, cur, sub, objs, fetches, started, late, pg, ev, net>>

LoginTick ==
  \E d \in LoginSteps :
    /\ calc.op = "login" /\ calc.at = "login"
    /\ ticks < MaxLoginTicks
    /\ now' = now + d
    /\ ticks' = ticks + 1
    /\ calc' = [calc EXCEPT !.last = NoLoginEvent]
    /\ UNCHANGED <<ls, cacheVars, retryVars, breakerVars, pageVars, routeVars, net>>

LoginNext == LoginSubmit \/ LoginResponse \/ LoginNetwork \/ LoginTick

SpecLogin == LoginInit /\ [][LoginNext]_vars

(*************************************************************************)
(* Automatic recovery: the network monitors of the renders and the       *)
(* subscription effect on [error].  Every render builds a Fallbacks      *)
(* object with a network monitor of its own and calls its init(), which  *)
(* puts two handlers on the window that are never removed; the effect    *)
(* subscribes a listener, closed over the error of its render, to the    *)
(* monitor of that render, and its cleanup calls the function subscribe  *)
(* returned.  A render is named by its number.                           *)
(*************************************************************************)
Renders == 1..MaxRenders
MsgBlocked == "Too many failed attempts. Please try again later."
MsgFailed == "Failed to load"
ShownErrors == {MsgNone, MsgFailed, MsgBlocked}

NoListener == [id |-> 0, err |-> MsgNone]

\* the cleanup of the subscription effect: the function subscribe
\* returned, on the monitor of render r
CleanupSkipped(lists, r, fn) == lists

CleanupEffect(lists, r, fn) ==
  IF r = 0 THEN lists ELSE [lists EXCEPT ![r] = FilterOut(fn, @)]

\* the subscription effect of render r, whose state holds error e
SubscribeEffect(lists, r, e) ==
  [lists EXCEPT ![r] = Append(@, [id |-> r, err |-> e])]

\* the calls the handlers of the renders 1..n make, in the order init()
\* registered them
RECURSIVE HandlerCalls(_, _, _)
HandlerCalls(lists, n, value) ==
  IF n = 0 THEN <<>>
  ELSE HandlerCalls(lists, n - 1, value) \o ForEachCall(lists[n], value)

\* the listener of the effect: if (isOnline && error) fetchOverviewData(true)
StartsFetch(call) == call.value /\ call.fn.err # MsgNone

FetchesStarted(calls) == Cardinality({i \in 1..Len(calls) : StartsFetch(calls[i])})

\* a render after the error state changed: cleanup of the old
\* subscription, then the effect of the new render
ErrorRendered(n, e, kind, calls) ==
  LET r == n.renders + 1
  IN [n EXCEPT !.error = e, !.renders = r,
               !.lists = SubscribeEffect(CleanupEffect(n.lists, n.subAt, n.subFn), r, e),
               !.subAt = r, !.subFn = [id |-> r, err |-> e],
               !.calls = calls, !.last = kind]

\* the page unmounts: the cleanup of the effect
Unmounted(n, kind, calls) ==
  [n EXCEPT !.mounted = FALSE, !.error = MsgNone,
            !.lists = CleanupEffect(n.lists, n.subAt, n.subFn),
            !.subAt = 0, !.subFn = NoListener,
            !.calls = calls, !.last = kind]

RecoveryInit ==
  /\ ticks = 0
  /\ now = 0
  /\ ls = FreshStorage
  /\ lastLoad = NoLoad
  /\ RetryIdle
  /\ BreakerIdle
  /\ PageIdle
  /\ RouteIdle
  /\ CalcIdle
  /\ net = [op |-> "recovery", mounted |-> FALSE, error |-> MsgNone,
            isOnline |-> TRUE, renders |-> 0,
            lists |-> [r \in Renders |-> <<>>],
            subAt |-> 0, subFn |-> NoListener, calls |-> 0, last |-> "none"]

RecoveryFrame ==
  UNCHANGED <<now, ticks, ls, cacheVars, retryVars, breakerVars, pageVars,
              routeVars, calc>>

\* the page mounts: first render, init(), the subscription effect
PageMounts ==
  /\ net.op = "recovery" /\ ~net.mounted
  /\ net.renders < MaxRenders
  /\ net' = [ErrorRendered(net, MsgNone, "mount", 0) EXCEPT !.mounted = TRUE]
  /\ RecoveryFrame

\* a fetch ends, or a button starts one: setError with another value
ErrorChanges ==
  \E e \in ShownErrors :
    /\ net.op = "recovery" /\ net.mounted
    /\ net.renders < MaxRenders
    /\ e # net.error
    /\ net' = ErrorRendered(net, e, "setError", 0)
    /\ RecoveryFrame

\* any other state setter: a render, init(), no effect
OtherRender ==
  /\ net.op = "recovery" /\ net.mounted
  /\ net.renders < MaxRenders
  /\ net' = [net EXCEPT !.renders = @ + 1, !.calls = 0, !.last = "render"]
  /\ RecoveryFrame

\* navigation away from the page
PageUnmounts ==
  /\ net.op = "recovery" /\ net.mounted
  /\ net' = Unmounted(net, "unmount", 0)
  /\ RecoveryFrame

\* the window fires online or offline: every handler init() registered
\* runs; a listener that starts a fetch runs fetchOverviewData(true) up
\* to its first await, which clears the error, or sets the message of
\* the circuit breaker, or finds the session invalid and navigates away
MonitorTransition ==
  \E outcome \in {"cleared", "blocked", "redirect"} :
    /\ net.op = "recovery"
    /\ LET value == ~net.isOnline
           calls == HandlerCalls(net.lists, net.renders, value)
           k == FetchesStarted(calls)
           n == [net EXCEPT !.isOnline = value]
           e == IF outcome = "blocked" THEN MsgBlocked ELSE MsgNone
       IN IF k = 0
            THEN /\ outcome = "cleared"
                 /\ net' = [n EXCEPT !.calls = 0, !.last = "transition"]
            ELSE /\ net.renders < MaxRenders
                 /\ net' = IF outcome = "redirect" THEN Unmounted(n, "transition", k)
                           ELSE IF e # net.error THEN ErrorRendered(n, e, "transition", k)
                           ELSE [n EXCEPT !.renders = @ + 1, !.calls = k,
                                          !.last = "transition"]
    /\ RecoveryFrame

RecoveryNext ==
  PageMounts \/ ErrorChanges \/ OtherRender \/ PageUnmounts \/ MonitorTransition

SpecRecovery == RecoveryInit /\ [][RecoveryNext]_vars

(*************************************************************************)
(* Claims.                                                               *)
(*************************************************************************)

\* C1: cache.load(key, maxAge) returns the stored payload if and only if an
\* entry exists for the key and now - timestamp < maxAge; at an age of
\* exactly maxAge, or more, it returns null.
C1_LoadIffFresh ==
  lastLoad.key \in CacheKeys =>
    LET e == ls.cache[lastLoad.key]
        young == e # NoEntry /\ now - e.timestamp < lastLoad.maxAge
    IN /\ young => lastLoad.result = e.data
       /\ ~young => lastLoad.result = NullData

\* C1 witness: a load at an age of exactly maxAge, which gave null
C1_Witness ==
  /\ lastLoad.key \in CacheKeys
  /\ ls.cache[lastLoad.key] # NoEntry
  /\ now - ls.cache[lastLoad.key].timestamp = lastLoad.maxAge
  /\ lastLoad.result = NullData

\* C2: an authentication failure is never retried: whatever maxRetries and
\* the attempt, once fn failed with a 401 / session-expired error, retry has
\* thrown that very error and fn was not invoked again.
C2_AuthNeverRetried ==
  \A k \in 1..Len(rt.outs) :
    rt.outs[k] = "auth" =>
      /\ rt.calls = k
      /\ rt.pc = "thrown"
      /\ rt.thrown = [kind |-> "auth", attempt |-> k - 1]

\* C7: at every time t at or after lastFailure + 5 minutes a fetch is not
\* blocked and the failure counter is back to 0 before the fetch proceeds.
C7_CooldownResets ==
  (/\ lastBlock.called
   /\ lastBlock.lastFailure # NoTime
   /\ now >= lastBlock.lastFailure + CooldownMs)
    => (~lastBlock.result /\ fb.failureCount = 0)

\* C9: retry invokes fn at most maxRetries times, once per round, and the
\* wait before retry number k is 1000 * 2^(k-1) ms, so the waits grow strictly.
C9_BoundedBackoff ==
  /\ rt.calls <= rt.maxRetries
  /\ Len(rt.waits) <= rt.maxRetries - 1 \/ rt.pc = "idle"
  /\ rt.calls = Len(rt.outs) + (IF rt.pc = "call" THEN 1 ELSE 0)
  /\ rt.pc \in {"call", "wait"} => Len(rt.waits) = rt.calls - (IF rt.pc = "call" THEN 1 ELSE 0)
  /\ \A k \in 1..Len(rt.waits) : rt.waits[k] = BackoffBase * Pow2(k - 1)
  /\ \A k \in 1..(Len(rt.waits) - 1) : rt.waits[k] < rt.waits[k + 1]

\* C9 witness: every one of maxRetries >= 3 attempts failed without an
\* authentication failure, after maxRetries - 1 waits
C9_Witness ==
  /\ rt.pc = "thrown"
  /\ rt.maxRetries >= 3
  /\ rt.calls = rt.maxRetries
  /\ Len(rt.waits) = rt.maxRetries - 1
  /\ \A k \in 1..Len(rt.outs) : rt.outs[k] # "auth"

\* C10: retry returns the result of the first attempt that succeeds and makes
\* no attempt after it; when every attempt fails it throws the error of the
\* last attempt.
C10_FirstSuccessLastError ==
  /\ \A k \in 1..(Len(rt.outs) - 1) : rt.outs[k] # "ok"
  /\ rt.pc = "returned" =>
       /\ rt.outs[Len(rt.outs)] = "ok"
       /\ rt.result = Len(rt.outs) - 1
       /\ rt.calls = Len(rt.outs)
  /\ rt.pc = "thrown" =>
       /\ \A k \in 1..Len(rt.outs) : rt.outs[k] # "ok"
       /\ rt.thrown = [kind |-> rt.outs[Len(rt.outs)], attempt |-> Len(rt.outs) - 1]
       /\ rt.calls = Len(rt.outs)

\* C10 witness: a call that threw after two failures of different kinds
C10_Witness ==
  /\ rt.pc = "thrown"
  /\ Len(rt.outs) >= 2
  /\ rt.outs[1] # rt.outs[Len(rt.outs)]

\* C3: when the remote API answers a fetch with HTTP 401, none of the
\* session keys adminEmail, adminToken and adminLoginTime remains in
\* storage, and the location is the login screen.
C3_Clears401 ==
  ev.got401 =>
    /\ ls.email = NoEmail
    /\ ls.token = NoToken
    /\ ls.loginTime = NoTime
    /\ loc = "login"

\* C4: a fetch invocation that has redirected (invalid session or 401)
\* has recorded no failure, loaded no cached payload and set no error
\* banner, and an invocation that finds the session invalid redirects
\* whatever the circuit breaker says.
C4_RedirectPreempts ==
  /\ (ev.ended /\ ev.redirected) =>
       (~ev.recorded /\ ~ev.loadedCache /\ ~ev.banner)
  /\ (ev.begun /\ ev.sessionInvalid) => ev.redirected

\* C6: once the mounted page has recorded 5 failures within 5 minutes,
\* its next fetch invocation ends at once with the "too many failed
\* attempts" error and makes no network call.
C6_BreakerTrips ==
  (ev.begun /\ ev.hot) =>
    /\ ev.outcome = "blocked"
    /\ ev.netCalls = 0
    /\ ui.error = MsgTooMany

\* C8: shouldBlock of a fetch invocation sees every failure the mounted
\* page has recorded since its last success and its last elapsed
\* cooldown.
C8_CounterPersists == ev.begun => ev.seen >= ev.expected

\* the session is stale: the exp claim of the token has passed or,
\* without a claim, the login time is not less than 24 hours old
Stale(store, t) ==
  IF store.token.kind = "jwt" /\ store.token.exp # 0
    THEN t >= store.token.exp * 1000
    ELSE store.loginTime = NoTime \/ t - store.loginTime >= SessionMaxAgeMs

\* C5: whenever an authenticated view is rendered, adminEmail and
\* adminToken are both in storage and the session is not stale.
C5_RenderedSessionValid ==
  route.shown =>
    /\ ls.email # NoEmail
    /\ ls.token # NoToken
    /\ ~Stale(ls, now)

\* C11: when a fetch fails with a non-401 failure and a cache entry
\* younger than 24 hours exists, the catch block sets the cached payload
\* for display and the classified banner: the timeout message for a
\* timeout, the network message when the monitor reports offline, the
\* server message otherwise.
C11_Degraded ==
  (calc.op = "catch" /\ calc.done /\ calc.kind # "auth"
     /\ CacheLoad(ls, CatchKey(calc.impl), FallbackMaxAge, now) # NullData) =>
    /\ calc.data = ls.cache[CatchKey(calc.impl)].data
    /\ calc.error = IF calc.kind = "timeout" THEN MsgTimeout
                    ELSE IF ~calc.on THEN MsgNetwork
                    ELSE MsgServer

\* C12: whenever a fetch of the mounted page has failed and no cache
\* entry within the 24-hour window exists, the page shows the error
\* screen: a banner and the manual retry, and no booking data.
C12_Failed ==
  (ev.ended /\ ev.recorded /\ ev.reached /\ ~ev.got401 /\ ~ev.loadedCache) =>
    /\ ui.error # MsgNone
    /\ View(ui) = "error"

RECURSIVE SumNotCancelled(_, _)
SumNotCancelled(impl, list) ==
  IF list = <<>> THEN 0
  ELSE LET b == list[Len(list)]
           p == DisplayedPrice(impl, b)
       IN SumNotCancelled(impl, SubSeq(list, 1, Len(list) - 1))
            + (IF IsCancelled(b) \/ p = Undefined THEN 0 ELSE p)

C14_Revenue ==
  (calc.op = "bookings" /\ calc.stage = "rendered") =>
    calc.total = SumNotCancelled(calc.impl, calc.list)

\* C14, views with the fallback layer only: the same total.
C14_RevenueFallbackViews ==
  (calc.op = "bookings" /\ calc.stage = "rendered" /\ calc.impl # "HistoryBasic") =>
    calc.total = SumNotCancelled(calc.impl, calc.list)

\* C15: a booking's displayed status is "Cancelled" exactly when the booking
\* is excluded from revenue, in whatever letter case the revenue rule
\* accepts; every other booking is counted and labelled "Paid".
C15_Label ==
  (calc.op = "bookings" /\ calc.stage = "rendered" /\ calc.impl # "HistoryBasic") =>
    \A i \in 1..Len(calc.list) :
      LET b == calc.list[i]
      IN /\ (calc.labels[i] = "Cancelled") <=> IsCancelled(b)
         /\ ~IsCancelled(b) =>
              Counted(calc.impl, b) /\ calc.labels[i] = "Paid"

\* C15, the status in lower case only: the fallback views label it as
\* claimed.
C15_LabelLowerCase ==
  (calc.op = "bookings" /\ calc.stage = "rendered" /\ calc.impl # "HistoryBasic") =>
    \A i \in 1..Len(calc.list) :
      LET b == calc.list[i]
      IN b.status # "Cancelled" =>
           /\ (calc.labels[i] = "Cancelled") <=> ~Counted(calc.impl, b)
           /\ Counted(calc.impl, b) => calc.labels[i] = "Paid"

\* C16: normalisation defaults only a missing price: a booking with a
\* numeric price >= 0 keeps exactly that price; a booking with neither
\* price nor revenue gets 400 when its court type is padel and 150
\* otherwise.
C16_Normalize ==
  (calc.op = "bookings" /\ calc.stage # "fetched" /\ calc.impl # "HistoryBasic") =>
    \A i \in 1..Len(calc.list) :
      LET r == calc.raw[i]
          p == DisplayedPrice(calc.impl, calc.list[i])
      IN /\ r.price >= 0 => p = r.price
         /\ (r.price = Undefined /\ r.revenue = Undefined) =>
              p = (IF ToLowerCase(r.courtType) = "padel" THEN PadelPrice ELSE OtherPrice)

\* C16, prices above 0 only: the normalisation keeps them and defaults the
\* booking without price and revenue.
C16_NormalizePositive ==
  (calc.op = "bookings" /\ calc.stage # "fetched" /\ calc.impl # "HistoryBasic") =>
    \A i \in 1..Len(calc.list) :
      LET r == calc.raw[i]
          p == DisplayedPrice(calc.impl, calc.list[i])
      IN /\ r.price > 0 => p = r.price
         /\ (r.price = Undefined /\ r.revenue = Undefined) =>
              p = (IF ToLowerCase(r.courtType) = "padel" THEN PadelPrice ELSE OtherPrice)

\* C17: cache.save replaces the entry of the key by the payload stamped
\* with the current time, and a failure to persist is swallowed: a fetch
\* whose network attempt succeeded ends Ready, with the fetched payload on
\* screen and no banner, also when the cache write failed (the entry is
\* then left as it was).
C17_SaveSwallowed ==
  (ev.type = "response" /\ ev.fetched # NullData) =>
    /\ ev.ended /\ ev.outcome = "ready" /\ ~ev.recorded
    /\ ev.reached =>
         /\ ui.data = ev.fetched
         /\ ui.error = MsgNone
         /\ ~ui.loading
         /\ View(ui) = "main"
    /\ ~ev.saveFailed =>
         ls.cache[PageKey] = [data |-> ev.fetched, timestamp |-> now]

\* C17 happens: a fetch succeeded on the page while the storage refused
\* the write; the payload is on screen without banner and the cache does
\* not hold it.
C17_Witness ==
  /\ ev.type = "response" /\ ev.fetched # NullData
  /\ ev.saveFailed /\ ev.reached
  /\ ev.outcome = "ready"
  /\ ui.data = ev.fetched /\ ui.error = MsgNone
  /\ ls.cache[PageKey].data # ev.fetched

\* C18: the session expiry check judges a token that carries an exp claim
\* against that claim; when no exp can be read (unstructured token,
\* undecodable payload, payload without exp) it falls back to the stored
\* login time and reports the session expired once that time is more than
\* 24 hours old.
C18_Expiry ==
  (calc.op = "expiry" /\ calc.done /\ ls.token # NoToken) =>
    calc.expired =
      (IF ls.token.kind = "jwt" /\ ls.token.exp # 0
         THEN now >= ls.token.exp * 1000
         ELSE ls.loginTime # NoTime /\ now - ls.loginTime > SessionMaxAgeMs)

\* C18, every token but the one whose payload cannot be decoded: the check
\* is as claimed.
C18_ExpiryDecodable ==
  (calc.op = "expiry" /\ calc.done /\ ls.token # NoToken /\ ls.token.kind # "jwtBad") =>
    calc.expired =
      (IF ls.token.kind = "jwt" /\ ls.token.exp # 0
         THEN now >= ls.token.exp * 1000
         ELSE ls.loginTime # NoTime /\ now - ls.loginTime > SessionMaxAgeMs)

\* the live registrations of listener fn: the calls of subscribe(fn) whose
\* returned function has not been called
LiveRegistrations(fn) ==
  Cardinality({h \in DOMAIN net.handles : net.handles[h].fn = fn /\ net.handles[h].live})

\* C19: calling the function subscribe returned removes exactly one
\* registration; every other registration, another registration of the
\* same listener function included, stays in the list.
C19_Unsubscribe ==
  (net.op = "net" /\ net.last.kind = "unsubscribe") =>
    \A fn \in Listeners :
      CountOf(fn, net.listeners) =
        CountOf(fn, net.last.before) - (IF fn = net.last.fn THEN 1 ELSE 0)

\* C19, the registrations of the other listener functions: they stay,
\* and no registration of the unsubscribed function is left.
C19_OthersStay ==
  (net.op = "net" /\ net.last.kind = "unsubscribe") =>
    /\ CountOf(net.last.fn, net.listeners) = 0
    /\ \A fn \in Listeners \ {net.last.fn} :
         CountOf(fn, net.listeners) = CountOf(fn, net.last.before)

\* C20: on every online/offline transition the monitor sets isOnline to
\* the new value and calls each registered listener exactly once (once per
\* live registration) with that value; a listener whose registrations are
\* all removed, or not yet made, is not called.
C20_Delivery ==
  (net.op = "net" /\ net.last.kind = "transition") =>
    /\ net.isOnline = net.last.value
    /\ \A i \in 1..Len(net.last.calls) : net.last.calls[i].value = net.last.value
    /\ \A fn \in Listeners :
         Cardinality({i \in 1..Len(net.last.calls) : net.last.calls[i].fn = fn})
           = LiveRegistrations(fn)

\* C20, weaker: a listener without live registration is never called, and
\* every call carries the new value of isOnline.
C20_NoStrayCall ==
  (net.op = "net" /\ net.last.kind = "transition") =>
    /\ net.isOnline = net.last.value
    /\ \A i \in 1..Len(net.last.calls) :
         /\ net.last.calls[i].value = net.last.value
         /\ LiveRegistrations(net.last.calls[i].fn) > 0

\* the loaded list of view state v restricted to the bookings that satisfy
\* every active filter
Restricted(v) ==
  IF v.impl = "Dashboard"
    THEN SelectSeq(v.bookings, LAMBDA b : InCategory("Dashboard", b, v.activeView, v.clock))
    ELSE SelectSeq(v.bookings, LAMBDA b : PassesFilters(v, b))

SameBookings(l1, l2) == \A b \in ViewBookings : CountOf(b, l1) = CountOf(b, l2)

\* C21: a change of derived view state (tab, search text, date range,
\* court filter, status filter, column sort) invokes no remote operation
\* and leaves the loaded list, the cache entries, the session keys and the
\* failure counters unchanged; after every step the displayed list holds
\* exactly the loaded bookings that satisfy every active filter.
C21_ViewChange ==
  [][calc.op = "view" =>
       /\ calc'.loads = calc.loads =>
            /\ calc'.bookings = calc.bookings
            /\ ls' = ls
            /\ fetches' = fetches /\ started' = started
            /\ objs' = objs /\ fb' = fb
       /\ SameBookings(Displayed(calc'), Restricted(calc'))]_vars

\* C21 happens: with two bookings loaded, a search text and a status
\* filter set and a column sorted, the page displays the one booking that
\* passes.
C21_Witness ==
  /\ calc.op = "view" /\ calc.impl = "History" /\ calc.loads = 1
  /\ Len(calc.bookings) = 2
  /\ calc.searchTerm # <<>> /\ calc.statusFilter # "all"
  /\ calc.sortConfig.key = "price"
  /\ Len(calc.filtered) = 1
  /\ PassesFilters(calc, calc.filtered[1])
  /\ ls.cache["history_all"].timestamp = now

\* C22: when two fetches for the same cache key overlap, the entry holds,
\* after the response processed last has been written, the payload of
\* that response, whichever fetch started first.
C22_LastWriteWins ==
  (ev.type = "response" /\ ev.fetched # NullData /\ ev.met # "none" /\ ~ev.saveFailed) =>
    ls.cache[PageKey] = [data |-> ev.fetched, timestamp |-> now]

\* C22 happens: the response of the fetch that started earlier has
\* overwritten the cached payload of the fetch that started later.
C22_Witness ==
  /\ ev.type = "response" /\ ev.met = "later" /\ ~ev.saveFailed
  /\ ev.replaced # NullData /\ ev.replaced # ev.fetched
  /\ ls.cache[PageKey].data = ev.fetched
  /\ InFlight(fetches) = {}

C24_Terminates ==
  /\ \A s \in Slots : (fetches[s].pc # "free") ~> (fetches[s].pc = "free")
  /\ (loc = "page" /\ ui.loading) ~> (loc # "page" \/ ~ui.loading)

\* C24 happens: a fetch has ended on the mounted page after its last
\* retry failed, and the loading flag is cleared.
C24_Witness ==
  /\ ev.type = "response" /\ ev.ended /\ ev.reached
  /\ ev.netCalls = PageMaxRetries
  /\ ev.outcome = "failed"
  /\ loc = "page" /\ ~ui.loading
  /\ InFlight(fetches) = {}

\* C25: after 5 login attempts rejected by the server within 15 minutes of
\* the first of them, a further submit on the login screen is refused
\* with the rate-limit message and sends no login request, until 15
\* minutes have passed since the first counted attempt or a login
\* succeeds.
C25_RateLimit ==
  (calc.op = "login" /\ calc.last.kind \in {"sent", "rateLimited"}) =>
    (calc.last.due <=> (calc.last.kind = "rateLimited" /\ calc.error = MsgRateLimit))

\* C25, the tracker a submit reads: it never holds a counted attempt.
C25_TrackerFresh ==
  calc.op = "login" => calc.tracker = FreshTracker

\* C26: a login attempt writes the session all-or-nothing: after an
\* attempt the server accepted, adminEmail, adminToken and adminLoginTime
\* are all in storage before the navigation to the dashboard; after an
\* attempt that failed (rejected, timed out, offline, rate-limited) none
\* of the three keys has been written or changed.
C26_AllOrNothing ==
  calc.op = "login" =>
    /\ calc.last.kind \in {"accepted", "acceptedNoToken"} =>
         /\ calc.at = "dashboard"
         /\ ls.email = AdminEmail /\ ls.token # NoToken /\ ls.loginTime = now
    /\ calc.last.kind \in {"rejected", "timeout", "network", "offline", "rateLimited"} =>
         ls = calc.last.before

\* C26, the failed attempts and the accepted attempt whose response
\* carries a token: as claimed.
C26_WithToken ==
  calc.op = "login" =>
    /\ calc.last.kind = "accepted" =>
         /\ calc.at = "dashboard"
         /\ ls.email = AdminEmail /\ ls.token # NoToken /\ ls.loginTime = now
    /\ calc.last.kind \in {"rejected", "timeout", "network", "offline", "rateLimited"} =>
         ls = calc.last.before

\* whether list is ordered by the comparator of (key, direction)
Ordered(list, sortConfig) ==
  \A i, j \in 1..Len(list) :
    i < j => Compare(list[i], list[j], sortConfig.key, sortConfig.direction) <= 0

\* C27: in every reachable state of the History page the displayed list
\* is ordered according to the sort indicator the page shows
\* (sortConfig), also after a later change of search text, filter, tab
\* or loaded data; requestSort(key) sets the direction to desc when key
\* is already the ascending sort key and to asc otherwise.
C27_Ordered ==
  /\ []((calc.op = "view" /\ calc.impl = "History") =>
          Ordered(Displayed(calc), calc.sortConfig))
  /\ [][(calc.op = "view" /\ calc'.sortConfig # calc.sortConfig) =>
          calc'.sortConfig.direction =
            (IF calc.sortConfig.direction = "asc"
                  /\ calc'.sortConfig.key = calc.sortConfig.key
               THEN "desc" ELSE "asc")]_vars

\* C27, what requestSort does: the step that changes the sort indicator
\* chooses the direction as claimed and leaves the list ordered by it.
C27_RequestSort ==
  [][(calc.op = "view" /\ calc'.sortConfig # calc.sortConfig) =>
       /\ calc'.sortConfig.direction =
            (IF calc.sortConfig.direction = "asc"
                  /\ calc'.sortConfig.key = calc.sortConfig.key
               THEN "desc" ELSE "asc")
       /\ Ordered(Displayed(calc'), calc'.sortConfig)]_vars

\* the number of categories of categorizeBookings booking b falls in
CategoriesOf(impl, b, t) == Cardinality({view \in Views : InCategory(impl, b, view, t)})

\* C30: categorizeBookings partitions the loaded bookings: every booking
\* (all of the model's have a valid date) falls in exactly one of today,
\* upcoming and past, and the tab counts add up to the number of loaded
\* bookings.
C30_Partition ==
  calc.op = "view" =>
    /\ \A i \in 1..Len(calc.bookings) :
         CategoriesOf(calc.impl, calc.bookings[i], calc.clock) = 1
    /\ Len(CategorizeBookings(calc.impl, calc.bookings, "today", calc.clock))
         + Len(CategorizeBookings(calc.impl, calc.bookings, "upcoming", calc.clock))
         + Len(CategorizeBookings(calc.impl, calc.bookings, "past", calc.clock))
       = Len(calc.bookings)

\* whether booking b lies in the window of the History page: from the
\* midnight 30 days before today to the last millisecond of the 30th day
\* after today
InWindow(b, t) ==
  /\ NotLater(At(t.day - WindowDays, 0), b.date)
  /\ NotLater(b.date, At(t.day + WindowDays, DayMs - 1))

Covered(impl, list, t) ==
  SelectSeq(list, LAMBDA b : impl = "Dashboard" \/ InWindow(b, t))

\* C30, as the code has it: no booking falls in two categories; the
\* Dashboard's categorizeBookings puts every booking in exactly one; the
\* History page's puts a booking in exactly one when it lies in the
\* window of 30 days around today and in none otherwise, so its tab
\* counts add up to the number of loaded bookings inside the window.
C30_WindowPartition ==
  calc.op = "view" =>
    /\ \A i \in 1..Len(calc.bookings) :
         CategoriesOf(calc.impl, calc.bookings[i], calc.clock) =
           (IF calc.impl = "Dashboard" \/ InWindow(calc.bookings[i], calc.clock)
              THEN 1 ELSE 0)
    /\ Len(CategorizeBookings(calc.impl, calc.bookings, "today", calc.clock))
         + Len(CategorizeBookings(calc.impl, calc.bookings, "upcoming", calc.clock))
         + Len(CategorizeBookings(calc.impl, calc.bookings, "past", calc.clock))
       = Len(Covered(calc.impl, calc.bookings, calc.clock))

\* C30 witness: the History page has loaded a booking inside the window
\* and one outside it.
C30_Witness ==
  /\ calc.op = "view" /\ calc.impl = "History"
  /\ Len(calc.bookings) = 2
  /\ InWindow(calc.bookings[1], calc.clock)
  /\ ~InWindow(calc.bookings[2], calc.clock)
  /\ calc.bookings[1].date = EndOfDay(calc.clock)

\* C28: the two session checks agree: for every stored token, login time
\* and current time, the validateSession of the Dashboard and History
\* pages reports the session invalid exactly when the application's check
\* (validateSession together with checkTokenExpiry) does, including at
\* now = exp * 1000 and for a session older than 24 hours whose token has
\* no exp claim.
C28_ChecksAgree ==
  (calc.op = "expiry" /\ calc.checked) => (calc.pageValid <=> calc.appValid)

\* C28, the direction that holds: a session the page's validateSession
\* rejects is rejected by the application's check too.
C28_PageRejectsLess ==
  (calc.op = "expiry" /\ calc.checked) => (calc.appValid => calc.pageValid)

\* C29: whenever the network monitor goes from offline to online while
\* the page shows an error, exactly one fetch is started for that
\* transition; a transition to online while no error is shown, any
\* transition to offline, and any transition after the page unmounted
\* start no fetch.
C29_AutoRecovery ==
  [][(net.op = "recovery" /\ net'.isOnline # net.isOnline) =>
       net'.calls = (IF net'.isOnline /\ net.mounted /\ net.error # MsgNone
                       THEN 1 ELSE 0)]_vars

\* C29 witness: an online transition has started a fetch on a page that
\* had rendered at least three times, its error having changed twice.
C29_Witness ==
  /\ net.op = "recovery" /\ net.last = "transition"
  /\ net.isOnline /\ net.calls = 1
  /\ net.renders >= 4
  /\ net.subAt >= 3

====
